---- MODULE Spec2Model ----
(***************************************************************************)
(* A model of the tap-windows crate: the interface lifecycle of            *)
(* src/src/iface.rs (create_interface, check_interface, delete_interface,  *)
(* open_interface) and the Device object of src/src/lib.rs (create, open,  *)
(* delete, Drop), with the OS calls of src/src/ffi.rs as steps whose       *)
(* outcome the environment chooses.                                        *)
(***************************************************************************)
EXTENDS Integers, Sequences, FiniteSets, TLC

(***************************************************************************)
(* Bounds of the model.                                                    *)
(***************************************************************************)
\* longest driver-info list the OS builds for the new node
MaxDrivers == 3
\* most devices present in the class before the program runs
MaxDevices == 2
\* most registry-change waits the identifier resolver is followed through
MaxWaits == 2
\* clock ticks the handle-acquisition loop is followed through past its start
MaxTicks == 4
\* open attempts after the deadline that the model keeps counting
MaxLate == 2

(***************************************************************************)
(* Program constants.                                                      *)
(***************************************************************************)
\* lib.rs:91 time::Duration::from_secs(2), in clock ticks of one second
Deadline == 2

(***************************************************************************)
(* Strings are sequences of ASCII codes, so that the case-insensitive      *)
(* comparison is computed character by character as the code does.         *)
(***************************************************************************)
\* lib.rs:20 HARDWARE_ID = "tap0901"
HARDWARE_ID == <<116, 97, 112, 48, 57, 48, 49>>
\* "TAP0901": the same hardware ID in upper case
HARDWARE_ID_UPPER == <<84, 65, 80, 48, 57, 48, 49>>
\* "Tap0901": mixed case
HARDWARE_ID_MIXED == <<84, 97, 112, 48, 57, 48, 49>>
\* "othervendor0001"
OTHER_VENDOR_ID == <<111, 116, 104, 101, 114, 118, 101, 110, 100, 111, 114, 48, 48, 48, 49>>
\* "tap0902": same length as tap0901, differs in the last character
NEAR_ID == <<116, 97, 112, 48, 57, 48, 50>>

\* u8::to_ascii_lowercase
to_ascii_lowercase(c) == IF c >= 65 /\ c =< 90 THEN c + 32 ELSE c

\* str::eq_ignore_ascii_case, used at iface.rs:81, 165, 232
eq_ignore_ascii_case(a, b) ==
    /\ Len(a) = Len(b)
    /\ \A i \in 1..Len(a) : to_ascii_lowercase(a[i]) = to_ascii_lowercase(b[i])

(***************************************************************************)
(* NET_LUID_LH as its eight little-endian bytes (_Value: [u8; 8]).         *)
(* Reserved is bits 0..=23 (bytes 1-3 here, 1-based), NetLuidIndex bits    *)
(* 24..=47 (bytes 4-6), IfType bits 48..=63 (bytes 7-8).                   *)
(***************************************************************************)
\* byte k (0-based) of the unsigned integer v
ByteOf(v, k) ==
    CASE k = 0 -> v % 256
      [] k = 1 -> (v \div 256) % 256
      [] k = 2 -> (v \div 65536) % 256
      [] k = 3 -> (v \div 16777216) % 256

\* NET_LUID_LH { Value: 0 }, iface.rs:132
ZeroLuid == <<0, 0, 0, 0, 0, 0, 0, 0>>

\* the setter of NetLuidIndex placed one byte too low, at bits 16..=39
set_NetLuidIndex_shifted(l, v) ==
    [l EXCEPT ![3] = ByteOf(v, 0), ![4] = ByteOf(v, 1), ![5] = ByteOf(v, 2)]

\* the setter of NetLuidIndex storing all 32 bits of v from bit 24 up, so
\* that bits 24..=31 of v land in the low byte of IfType
set_NetLuidIndex_spilling(l, v) ==
    [l EXCEPT ![4] = ByteOf(v, 0), ![5] = ByteOf(v, 1), ![6] = ByteOf(v, 2),
              ![7] = IF ByteOf(v, 3) # 0 THEN ByteOf(v, 3) ELSE l[7]]

\* the generated setter of the bitfield NetLuidIndex, bits 24..=47: the low
\* 24 bits of v are stored, higher bits of v are dropped
set_NetLuidIndex(l, v) ==
    [l EXCEPT ![4] = ByteOf(v, 0), ![5] = ByteOf(v, 1), ![6] = ByteOf(v, 2)]

\* the generated setter of the bitfield IfType, bits 48..=63
set_IfType(l, v) ==
    [l EXCEPT ![7] = ByteOf(v, 0), ![8] = ByteOf(v, 1)]

\* the generated getters of the bitfields
NetLuidIndex(l) == l[4] + 256 * l[5] + 65536 * l[6]

IfType(l) == l[7] + 256 * l[8]

Reserved(l) == l[1] + 256 * l[2] + 65536 * l[3]

\* iface.rs:132-138 (and 191-197, 259-265): build the identifier from the
\* two registry values
BuildLuid(if_type_v, luid_index_v) ==
    set_NetLuidIndex(set_IfType(ZeroLuid, if_type_v), luid_index_v)

(***************************************************************************)
(* io::Result values.  An OS error keeps the name of the call it came      *)
(* from, so that the error a caller receives can be traced to its step.    *)
(***************************************************************************)
Ok == [kind |-> "Ok", at |-> "-"]
OsError(at) == [kind |-> "OsError", at |-> at]
\* io::ErrorKind::NotFound, iface.rs:93, 207, 275
NotFound(at) == [kind |-> "NotFound", at |-> at]
\* io::ErrorKind::TimedOut, ffi.rs:398 and lib.rs:92
TimedOut(at) == [kind |-> "TimedOut", at |-> at]
\* io::ErrorKind::Other, iface.rs:79
Other(at) == [kind |-> "Other", at |-> at]
NoResult == [kind |-> "none", at |-> "-"]

IsErr(r) == r.kind \notin {"Ok", "none"}

(***************************************************************************)
(* The host: driver packages and present devices.                          *)
(***************************************************************************)
\* DriverVersion values of the candidates
Versions == {0, 3, 5, 7}

\* One entry of the driver-info list of a node (ffi.rs:404-432, 303-337):
\* whether SetupDiEnumDriverInfoW succeeds at its index, its DriverVersion,
\* whether its detail record can be fetched, whether the HardwareID field
\* decodes from UTF-16, the HardwareID, and whether SetupDiSetSelectedDriverW
\* accepts it.
Candidate(ver, hw, enum_ok, detail_ok, utf16_ok, set_ok) ==
    [DriverVersion |-> ver, HardwareID |-> hw, enum_ok |-> enum_ok,
     detail_ok |-> detail_ok, utf16_ok |-> utf16_ok, set_ok |-> set_ok]

GoodCandidates ==
    {Candidate(v, hw, TRUE, TRUE, TRUE, TRUE) :
        v \in Versions, hw \in {HARDWARE_ID, HARDWARE_ID_UPPER}}

FaultyCandidates ==
    { Candidate(5, HARDWARE_ID, FALSE, TRUE, TRUE, TRUE),
      Candidate(5, HARDWARE_ID, TRUE, FALSE, TRUE, TRUE),
      Candidate(5, OTHER_VENDOR_ID, TRUE, TRUE, FALSE, TRUE),
      Candidate(5, HARDWARE_ID, TRUE, TRUE, TRUE, FALSE),
      Candidate(7, HARDWARE_ID, TRUE, TRUE, TRUE, FALSE),
      Candidate(5, OTHER_VENDOR_ID, TRUE, TRUE, TRUE, TRUE),
      Candidate(7, NEAR_ID, TRUE, TRUE, TRUE, TRUE) }

Candidates == GoodCandidates \cup FaultyCandidates

SeqsUpTo(S, n) == UNION {[1..k -> S] : k \in 0..n}

\* the value of a registry entry that has not been written
NoValue == 0 - 1

\* One present device of the network-adapter class, as the scans of
\* check_interface and delete_interface see it: its SPDRP_HARDWAREID, the
\* "*IfType" and "NetLuidIndex" values of its driver key (NoValue when
\* absent), whether SetupDiEnumDeviceInfo, the hardware-ID read and
\* SetupDiOpenDevRegKey succeed on it, and whether this program created it.
Device(hw, t, i, enum_ok, hw_ok, key_ok, mine) ==
    [hw |-> hw, IfType |-> t, NetLuidIndex |-> i, enum_ok |-> enum_ok,
     hw_ok |-> hw_ok, key_ok |-> key_ok, mine |-> mine]

\* the name Windows gives a new interface, and the names a caller renames
\* its interface to (lib.rs:32, 41)
DefaultAlias == "Ethernet 2"
NewNames == {"My Interface"}

VARIABLES
    drivers,        \* host: the driver-info list the OS builds for a new node
    present,        \* host: the present devices of the class, in enumeration order
    now,            \* host: the monotonic clock, in ticks
    events,         \* host: event objects created and not closed
    alias,          \* host: the name of the interface of the Device's adapter
    pc,             \* the position of the program
    caller,         \* the public operation in progress
    component_id,   \* argument of the operation
    devinfo,        \* the DeviceInfoSet of the operation: none, open, destroyed
    drvlist,        \* the driver-info list of the node: none, built, destroyed
    node,           \* the node of create_interface: none, created, registered
    driver_version, \* iface.rs:57
    member_index,   \* iface.rs:58, 151, 218
    selected,       \* index in drivers of the selected driver, 0 when none
    uninstaller,    \* the rollback guard of iface.rs:96 is armed
    ret,            \* the value the iface function is returning
    if_type,        \* iface.rs:126
    luid_index,     \* iface.rs:127
    luid,           \* the NET_LUID_LH built, resolved or passed in
    waits,          \* registry-change waits made by this create_interface
    calls,          \* the OS calls of the operation in progress, in order
    result,         \* the result of the last public operation that returned
    dev,            \* the Device object: none, live, dropped
    handle,         \* the device handle: none, open, closed
    closes,         \* number of close_handle calls on the device handle
    start,          \* lib.rs:87
    late,           \* open attempts begun after the deadline had passed
    deleted_ok,     \* a delete_interface with these arguments returned Ok
    present0        \* the present devices when the operation was called

hostVars == <<drivers, now, alias>>
selVars == <<driver_version, member_index, selected>>
regVars == <<if_type, luid_index, waits, events>>
devVars == <<dev, handle, closes, start, late>>
histVars == <<deleted_ok, present0>>

vars == <<drivers, present, now, events, alias, pc, caller, component_id, devinfo, drvlist,
          node, driver_version, member_index, selected, uninstaller, ret, if_type,
          luid_index, luid, waits, calls, result, dev, handle, closes, start, late,
          deleted_ok, present0>>

\* An OS call as the log records it: its name, the member index of an
\* enumeration call (the way the wait went for notify_change_key_value, the
\* position of the device for the REMOVE of delete_interface, 0 otherwise),
\* and whether it succeeded.
Entry(name, arg, ok) == [call |-> name, arg |-> arg, ok |-> ok]
Call(name, ok) == calls' = Append(calls, Entry(name, 0, ok))

Count(log, name) == Cardinality({k \in DOMAIN log : log[k].call = name})
Called(name) == Count(calls, name) > 0

\* the class-installer steps, ffi.rs:355-364 with iface.rs:8-9
InstallerSteps == {"DIF_REGISTERDEVICE", "DIF_REGISTER_COINSTALLERS",
                   "DIF_INSTALLINTERFACES", "DIF_INSTALLDEVICE", "DIF_REMOVE"}

(***************************************************************************)
(* create_interface, iface.rs:37-141.  Each OS call is one step; a call    *)
(* used with `?` either succeeds or makes the function return its error,   *)
(* and the scope guards then run in reverse order of their declaration:    *)
(* uninstaller (96), driver-info list (53), DeviceInfoSet (40).            *)
(***************************************************************************)
\* the guards with the rollback guard of iface.rs:96 never run
NextDrop_unarmed(armed, dl) ==
    IF dl = "built" THEN "ci_drop_drvlist_guard" ELSE "ci_drop_devinfo_guard"

\* the guards with the guard of the driver-info list (iface.rs:53) missing
NextDrop_devinfo_only(armed, dl) ==
    IF armed THEN "ci_drop_uninstaller" ELSE "ci_drop_devinfo_guard"

\* the first guard to run when the function returns
NextDrop(armed, dl) ==
    IF armed THEN "ci_drop_uninstaller"
    ELSE IF dl = "built" THEN "ci_drop_drvlist_guard"
    ELSE "ci_drop_devinfo_guard"

\* create_interface hands r to its caller: Device::create (lib.rs:84)
\* propagates an error with `?` and goes on to the handle loop otherwise
ReturnFromCreateInterface(r) ==
    IF caller = "Device::create" /\ ~IsErr(r)
    THEN pc' = "dc_start" /\ result' = result
    ELSE pc' = "done" /\ result' = r

\* iface.rs:38 ffi::create_device_info_list(..)?  No guard exists yet.
ci_create_device_info_list ==
    /\ pc = "ci_create_device_info_list"
    /\ \E ok \in BOOLEAN :
         /\ Call("create_device_info_list", ok)
         /\ IF ok
            THEN /\ devinfo' = "open"
                 /\ pc' = "ci_class_name_from_guid"
                 /\ UNCHANGED <<ret, result>>
            ELSE /\ ret' = OsError("create_device_info_list")
                 /\ devinfo' = devinfo
                 /\ ReturnFromCreateInterface(OsError("create_device_info_list"))
    /\ UNCHANGED <<hostVars, present, caller, component_id, drvlist, node, selVars,
                   uninstaller, regVars, luid, devVars, histVars>>

\* a call whose failure is not propagated: the next step follows anyway
PlainStep_unchecked(here, name, next) ==
    /\ pc = here
    /\ \E ok \in BOOLEAN : Call(name, ok)
    /\ pc' = next
    /\ ret' = ret
    /\ UNCHANGED <<hostVars, present, caller, component_id, devinfo, drvlist, node,
                   selVars, uninstaller, regVars, luid, result, devVars, histVars>>

\* a call used with `?` that changes nothing the model tracks
PlainStep(here, name, next) ==
    /\ pc = here
    /\ \E ok \in BOOLEAN :
         /\ Call(name, ok)
         /\ IF ok
               THEN pc' = next /\ ret' = ret
               ELSE pc' = NextDrop(uninstaller, drvlist) /\ ret' = OsError(name)
    /\ UNCHANGED <<hostVars, present, caller, component_id, devinfo, drvlist, node,
                   selVars, uninstaller, regVars, luid, result, devVars, histVars>>

\* iface.rs:44
ci_class_name_from_guid ==
    PlainStep("ci_class_name_from_guid", "class_name_from_guid", "ci_create_device_info")

\* iface.rs:46 with the new node made a device of the class at once
ci_create_device_info_registering ==
    /\ pc = "ci_create_device_info"
    /\ \E ok \in BOOLEAN :
         /\ Call("create_device_info", ok)
         /\ IF ok
            THEN /\ pc' = "ci_set_selected_device" /\ ret' = ret /\ node' = "registered"
                 /\ present' = Append(present, Device(component_id, 0 - 1, 0 - 1,
                                                      TRUE, TRUE, TRUE, TRUE))
            ELSE /\ pc' = NextDrop(uninstaller, drvlist)
                 /\ ret' = OsError("create_device_info")
                 /\ UNCHANGED <<node, present>>
    /\ UNCHANGED <<hostVars, caller, component_id, devinfo, drvlist,
                   selVars, uninstaller, regVars, luid, result, devVars, histVars>>

\* iface.rs:46 the node exists in the set; it is not yet a device of the class
ci_create_device_info ==
    /\ pc = "ci_create_device_info"
    /\ \E ok \in BOOLEAN :
         /\ Call("create_device_info", ok)
         /\ IF ok
            THEN pc' = "ci_set_selected_device" /\ ret' = ret /\ node' = "created"
            ELSE /\ pc' = NextDrop(uninstaller, drvlist)
                 /\ ret' = OsError("create_device_info")
                 /\ node' = node
    /\ UNCHANGED <<hostVars, present, caller, component_id, devinfo, drvlist,
                   selVars, uninstaller, regVars, luid, result, devVars, histVars>>

\* iface.rs:48
ci_set_selected_device ==
    PlainStep("ci_set_selected_device", "set_selected_device",
              "ci_set_device_registry_property")

\* iface.rs:49
ci_set_device_registry_property ==
    PlainStep("ci_set_device_registry_property", "set_device_registry_property",
              "ci_build_driver_info_list")

\* iface.rs:51-55 the list is built and its guard declared
ci_build_driver_info_list ==
    /\ pc = "ci_build_driver_info_list"
    /\ \E ok \in BOOLEAN :
         /\ Call("build_driver_info_list", ok)
         /\ IF ok
            THEN /\ pc' = "ci_enum_driver_info" /\ ret' = ret /\ drvlist' = "built"
                 /\ driver_version' = 0 /\ member_index' = 0
            ELSE /\ pc' = NextDrop(uninstaller, drvlist)
                 /\ ret' = OsError("build_driver_info_list")
                 /\ UNCHANGED <<drvlist, driver_version, member_index>>
    /\ UNCHANGED <<hostVars, present, caller, component_id, devinfo, node, selected,
                   uninstaller, regVars, luid, result, devVars, histVars>>

\* iface.rs:67 with `<=` weakened to `<`: an equal version replaces the choice
SkipByVersion_lt(v, dv) == v < dv

\* iface.rs:67 `if drvinfo_data.DriverVersion <= driver_version { continue; }`
SkipByVersion(v, dv) == v <= dv

\* iface.rs:81 with the comparison of the hardware IDs dropped
HardwareIdMatches_any(hardware_id, cid) == TRUE

\* iface.rs:81, 165, 232 `hardware_id.eq_ignore_ascii_case(component_id)`
HardwareIdMatches(hardware_id, cid) == eq_ignore_ascii_case(hardware_id, cid)

\* iface.rs:63-89 with the result of set_selected_driver (85-87) ignored
Examine_setunchecked(c, dv, cid) ==
    IF ~c.enum_ok THEN "continue"
    ELSE IF SkipByVersion(c.DriverVersion, dv) THEN "continue"
    ELSE IF ~c.detail_ok THEN "continue"
    ELSE IF ~c.utf16_ok THEN "return"
    ELSE IF ~HardwareIdMatches(c.HardwareID, cid) THEN "continue"
    ELSE "select"

\* iface.rs:63-89 what one iteration of the selection loop does with the
\* candidate c, the current driver_version being dv
Examine(c, dv, cid) ==
    IF ~c.enum_ok THEN "continue"                             \* 63-65
    ELSE IF SkipByVersion(c.DriverVersion, dv) THEN "continue"  \* 67-69
    ELSE IF ~c.detail_ok THEN "continue"                      \* 71-74
    ELSE IF ~c.utf16_ok THEN "return"                         \* 76-80
    ELSE IF ~HardwareIdMatches(c.HardwareID, cid) THEN "continue"  \* 81-83
    ELSE IF ~c.set_ok THEN "continue"                         \* 85-87
    ELSE "select"                                             \* 89

\* the OS calls one iteration makes on the candidate c
ExamineCalls(c, dv, cid, idx) ==
    <<Entry("enum_driver_info", idx, c.enum_ok)>>
    \o (IF c.enum_ok /\ ~SkipByVersion(c.DriverVersion, dv)
        THEN <<Entry("get_driver_info_detail", idx, c.detail_ok)>> ELSE <<>>)
    \o (IF c.enum_ok /\ ~SkipByVersion(c.DriverVersion, dv) /\ c.detail_ok
           /\ c.utf16_ok /\ HardwareIdMatches(c.HardwareID, cid)
        THEN <<Entry("set_selected_driver", idx, c.set_ok)>> ELSE <<>>)

\* iface.rs:60-90 one iteration of `while let Some(..) = enum_driver_info(..)`
ci_enum_driver_info ==
    /\ pc = "ci_enum_driver_info"
    /\ member_index < Len(drivers)
    /\ LET c == drivers[member_index + 1]
           what == Examine(c, driver_version, component_id)
       IN /\ calls' = calls \o ExamineCalls(c, driver_version, component_id, member_index)
          /\ member_index' = member_index + 1
          /\ driver_version' = IF what = "select" THEN c.DriverVersion ELSE driver_version
          /\ selected' = IF what = "select" THEN member_index + 1 ELSE selected
          /\ pc' = IF what = "return" THEN NextDrop(uninstaller, drvlist) ELSE pc
          /\ ret' = IF what = "return" THEN Other("HardwareID") ELSE ret
    /\ UNCHANGED <<hostVars, present, caller, component_id, devinfo, drvlist, node,
                   uninstaller, regVars, luid, result, devVars, histVars>>

\* iface.rs:60 enum_driver_info reports no more items, then 92-98: NotFound
\* when nothing was selected, else the rollback guard is declared
ci_enum_done ==
    /\ pc = "ci_enum_driver_info"
    /\ member_index >= Len(drivers)
    /\ calls' = Append(calls, Entry("enum_driver_info", member_index, FALSE))
    /\ IF driver_version = 0
       THEN /\ ret' = NotFound("No driver found")
            /\ pc' = NextDrop(uninstaller, drvlist)
            /\ uninstaller' = uninstaller
       ELSE /\ uninstaller' = TRUE
            /\ pc' = "ci_register_device"
            /\ ret' = ret
    /\ UNCHANGED <<hostVars, present, caller, component_id, devinfo, drvlist, node,
                   selVars, regVars, luid, result, devVars, histVars>>

\* the node of this attempt as a present device of the class: its hardware
\* ID is the one set at iface.rs:49, its driver key has no values yet
NewDevice(cid) == Device(cid, NoValue, NoValue, TRUE, TRUE, TRUE, TRUE)

\* iface.rs:100 DIF_REGISTERDEVICE makes the node a device of the class
ci_register_device ==
    /\ pc = "ci_register_device"
    /\ \E ok \in BOOLEAN :
         /\ Call("DIF_REGISTERDEVICE", ok)
         /\ IF ok
            THEN /\ pc' = "ci_register_coinstallers" /\ ret' = ret
                 /\ node' = "registered"
                 /\ present' = Append(present, NewDevice(component_id))
            ELSE /\ pc' = NextDrop(uninstaller, drvlist)
                 /\ ret' = OsError("DIF_REGISTERDEVICE")
                 /\ UNCHANGED <<node, present>>
    /\ UNCHANGED <<hostVars, caller, component_id, devinfo, drvlist, selVars,
                   uninstaller, regVars, luid, result, devVars, histVars>>

\* a call whose result is discarded with `let _ =`
IgnoredStep(here, name, next) ==
    /\ pc = here
    /\ \E ok \in BOOLEAN : Call(name, ok)
    /\ pc' = next
    /\ UNCHANGED <<hostVars, present, caller, component_id, devinfo, drvlist, node,
                   selVars, uninstaller, ret, regVars, luid, result, devVars, histVars>>

\* iface.rs:102
ci_register_coinstallers ==
    IgnoredStep("ci_register_coinstallers", "DIF_REGISTER_COINSTALLERS",
                "ci_install_interfaces")

\* iface.rs:103 with the result propagated by `?` instead of discarded
ci_install_interfaces_checked ==
    PlainStep("ci_install_interfaces", "DIF_INSTALLINTERFACES", "ci_install_device")

\* iface.rs:103
ci_install_interfaces ==
    IgnoredStep("ci_install_interfaces", "DIF_INSTALLINTERFACES", "ci_install_device")

\* iface.rs:105
ci_install_device ==
    PlainStep("ci_install_device", "DIF_INSTALLDEVICE", "ci_open_dev_reg_key")

\* iface.rs:107-116
ci_open_dev_reg_key ==
    PlainStep("ci_open_dev_reg_key", "open_dev_reg_key", "ci_wait_iftype")

(***************************************************************************)
(* The identifier resolver, iface.rs:118-127, and the registry-change      *)
(* wait, ffi.rs:387-402.                                                   *)
(***************************************************************************)
\* what the driver stack writes into the driver key of a new adapter:
\* "*IfType" (6 is IF_TYPE_ETHERNET_CSMACD) and "NetLuidIndex"
IfTypeWrites == {6}
IndexWrites == {100}

\* position in `present` of the device this program created
MyNodeIndex == CHOOSE k \in DOMAIN present : present[k].mine

RemoveAt(seq, k) == [j \in 1..(Len(seq) - 1) |-> IF j < k THEN seq[j] ELSE seq[j + 1]]

\* the ways one call of notify_change_key_value can go
WaitOutcomes == {"CreateEventW failed", "RegNotifyChangeKeyValue failed",
                 "WAIT_OBJECT_0", "WAIT_TIMEOUT", "WAIT_FAILED"}

\* ffi.rs:396-400 with the timeout arm returning Ok(())
notify_change_key_value_lenient(outcome) ==
    CASE outcome = "CreateEventW failed" -> OsError("CreateEventW")
      [] outcome = "RegNotifyChangeKeyValue failed" -> OsError("RegNotifyChangeKeyValue")
      [] outcome = "WAIT_OBJECT_0" -> Ok
      [] outcome = "WAIT_TIMEOUT" -> Ok
      [] outcome = "WAIT_FAILED" -> OsError("WaitForSingleObject")

\* ffi.rs:387-402 the value notify_change_key_value returns
notify_change_key_value(outcome) ==
    CASE outcome = "CreateEventW failed" -> OsError("CreateEventW")                \* 394
      [] outcome = "RegNotifyChangeKeyValue failed" -> OsError("RegNotifyChangeKeyValue")  \* 395
      [] outcome = "WAIT_OBJECT_0" -> Ok                                           \* 397
      [] outcome = "WAIT_TIMEOUT" -> TimedOut("Registry timed out")                \* 398
      [] outcome = "WAIT_FAILED" -> OsError("WaitForSingleObject")                 \* 399

\* iface.rs:118 / 122 the loop condition `key.get_value(..).is_err()`: the
\* value is read; when it is absent the driver stack may have written it
\* just before the read
WaitRead(here, field, writes, name, notify, next) ==
    /\ pc = here
    /\ LET k == MyNodeIndex
           v == present[k][field]
       IN \E w \in (IF v = NoValue THEN writes \cup {NoValue} ELSE {v}) :
            /\ present' = [present EXCEPT ![k][field] = w]
            /\ Call(name, w # NoValue)
            /\ pc' = IF w = NoValue THEN notify ELSE next
    /\ UNCHANGED <<hostVars, caller, component_id, devinfo, drvlist, node, selVars,
                   uninstaller, ret, regVars, luid, result, devVars, histVars>>

\* iface.rs:119 / 123 with an overall deadline on the loop: the second wait
\* gives up even when the key changed
WaitNotify_deadline(here, back) ==
    /\ pc = here
    /\ \E outcome \in WaitOutcomes :
         LET r == IF waits >= 1 /\ outcome = "WAIT_OBJECT_0"
                  THEN TimedOut("Registry timed out")
                  ELSE notify_change_key_value(outcome)
         IN /\ outcome = "WAIT_OBJECT_0" => waits < MaxWaits
            /\ calls' = Append(calls, Entry("notify_change_key_value", outcome, ~IsErr(r)))
            /\ events' = IF outcome = "CreateEventW failed" THEN events ELSE events + 1
            /\ waits' = waits + 1
            /\ IF IsErr(r)
               THEN pc' = NextDrop(uninstaller, drvlist) /\ ret' = r
               ELSE pc' = back /\ ret' = ret
    /\ UNCHANGED <<hostVars, present, caller, component_id, devinfo, drvlist, node,
                   selVars, uninstaller, if_type, luid_index, luid, result, devVars,
                   histVars>>

\* iface.rs:119 / 123 `ffi::notify_change_key_value(.., 2000)?`
WaitNotify(here, back) ==
    /\ pc = here
    /\ \E outcome \in WaitOutcomes :
         LET r == notify_change_key_value(outcome)
         IN /\ outcome = "WAIT_OBJECT_0" => waits < MaxWaits
            /\ calls' = Append(calls, Entry("notify_change_key_value", outcome, ~IsErr(r)))
            /\ events' = IF outcome = "CreateEventW failed" THEN events ELSE events + 1
            /\ waits' = waits + 1
            /\ IF IsErr(r)
               THEN pc' = NextDrop(uninstaller, drvlist) /\ ret' = r
               ELSE pc' = back /\ ret' = ret
    /\ UNCHANGED <<hostVars, present, caller, component_id, devinfo, drvlist, node,
                   selVars, uninstaller, if_type, luid_index, luid, result, devVars,
                   histVars>>

\* iface.rs:118
ci_wait_iftype ==
    WaitRead("ci_wait_iftype", "IfType", IfTypeWrites, "get_value *IfType",
             "ci_notify_iftype", "ci_wait_luidindex")

\* iface.rs:119
ci_notify_iftype == WaitNotify("ci_notify_iftype", "ci_wait_iftype")

\* iface.rs:122
ci_wait_luidindex ==
    WaitRead("ci_wait_luidindex", "NetLuidIndex", IndexWrites, "get_value NetLuidIndex",
             "ci_notify_luidindex", "ci_read_iftype")

\* iface.rs:123
ci_notify_luidindex == WaitNotify("ci_notify_luidindex", "ci_wait_luidindex")

\* iface.rs:126 `key.get_value("*IfType")?`
ci_read_iftype ==
    /\ pc = "ci_read_iftype"
    /\ \E ok \in BOOLEAN :
         /\ Call("get_value *IfType", ok)
         /\ IF ok
            THEN /\ if_type' = present[MyNodeIndex].IfType
                 /\ pc' = "ci_read_luidindex" /\ ret' = ret
            ELSE /\ if_type' = if_type
                 /\ pc' = NextDrop(uninstaller, drvlist)
                 /\ ret' = OsError("get_value *IfType")
    /\ UNCHANGED <<hostVars, present, caller, component_id, devinfo, drvlist, node,
                   selVars, uninstaller, luid_index, waits, events, luid, result,
                   devVars, histVars>>

\* iface.rs:127 `key.get_value("NetLuidIndex")?`
ci_read_luidindex ==
    /\ pc = "ci_read_luidindex"
    /\ \E ok \in BOOLEAN :
         /\ Call("get_value NetLuidIndex", ok)
         /\ IF ok
            THEN /\ luid_index' = present[MyNodeIndex].NetLuidIndex
                 /\ pc' = "ci_defuse" /\ ret' = ret
            ELSE /\ luid_index' = luid_index
                 /\ pc' = NextDrop(uninstaller, drvlist)
                 /\ ret' = OsError("get_value NetLuidIndex")
    /\ UNCHANGED <<hostVars, present, caller, component_id, devinfo, drvlist, node,
                   selVars, uninstaller, if_type, waits, events, luid, result,
                   devVars, histVars>>

\* iface.rs:130-140 with the guard left armed when the function returns Ok
ci_defuse_armed ==
    /\ pc = "ci_defuse"
    /\ uninstaller' = uninstaller
    /\ luid' = BuildLuid(if_type, luid_index)
    /\ ret' = Ok
    /\ pc' = NextDrop(uninstaller, drvlist)
    /\ UNCHANGED <<hostVars, present, caller, component_id, devinfo, drvlist, node,
                   selVars, regVars, calls, result, devVars, histVars>>

\* iface.rs:130-140 the guard is defused, the identifier built and returned
ci_defuse ==
    /\ pc = "ci_defuse"
    /\ uninstaller' = FALSE
    /\ luid' = BuildLuid(if_type, luid_index)
    /\ ret' = Ok
    /\ pc' = NextDrop(FALSE, drvlist)
    /\ UNCHANGED <<hostVars, present, caller, component_id, devinfo, drvlist, node,
                   selVars, regVars, calls, result, devVars, histVars>>

(***************************************************************************)
(* The scope guards of create_interface, run when it returns.              *)
(***************************************************************************)
\* iface.rs:96-98 with the error of a failed REMOVE returned in place of the
\* error that made the function return
ci_drop_uninstaller_reporting ==
    /\ pc = "ci_drop_uninstaller"
    /\ \E ok \in BOOLEAN :
         /\ Call("DIF_REMOVE", ok)
         /\ ret' = IF ok THEN ret ELSE OsError("DIF_REMOVE")
         /\ IF ok /\ node = "registered"
            THEN present' = RemoveAt(present, MyNodeIndex) /\ node' = "removed"
            ELSE UNCHANGED <<present, node>>
    /\ uninstaller' = FALSE
    /\ pc' = NextDrop(FALSE, drvlist)
    /\ UNCHANGED <<hostVars, caller, component_id, devinfo, drvlist, selVars,
                   regVars, luid, result, devVars, histVars>>

\* iface.rs:96-98 the rollback: DIF_REMOVE on the node, its result discarded.
\* A REMOVE that succeeds takes the node out of the class; one that fails
\* leaves the class as it is.
ci_drop_uninstaller ==
    /\ pc = "ci_drop_uninstaller"
    /\ \E ok \in BOOLEAN :
         /\ Call("DIF_REMOVE", ok)
         /\ IF ok /\ node = "registered"
            THEN present' = RemoveAt(present, MyNodeIndex) /\ node' = "removed"
            ELSE UNCHANGED <<present, node>>
    /\ uninstaller' = FALSE
    /\ pc' = NextDrop(FALSE, drvlist)
    /\ UNCHANGED <<hostVars, caller, component_id, devinfo, drvlist, selVars, ret,
                   regVars, luid, result, devVars, histVars>>

\* iface.rs:40-55 with the two guards declared in the opposite order: the
\* DeviceInfoSet is destroyed before the driver-info list
ci_drop_drvlist_guard_after ==
    /\ pc = "ci_drop_drvlist_guard"
    /\ \E ok1 \in BOOLEAN, ok2 \in BOOLEAN :
         /\ calls' = calls \o <<Entry("destroy_device_info_list", 0, ok1),
                                Entry("destroy_driver_info_list", 0, ok2)>>
         /\ devinfo' = IF ok1 THEN "destroyed" ELSE "destroy failed"
         /\ drvlist' = IF ok2 THEN "destroyed" ELSE "destroy failed"
    /\ ReturnFromCreateInterface(ret)
    /\ UNCHANGED <<hostVars, present, caller, component_id, node, selVars,
                   uninstaller, ret, regVars, luid, devVars, histVars>>

\* iface.rs:53-55
ci_drop_drvlist_guard ==
    /\ pc = "ci_drop_drvlist_guard"
    /\ \E ok \in BOOLEAN :
         /\ Call("destroy_driver_info_list", ok)
         /\ drvlist' = IF ok THEN "destroyed" ELSE "destroy failed"
    /\ pc' = "ci_drop_devinfo_guard"
    /\ UNCHANGED <<hostVars, present, caller, component_id, devinfo, node, selVars,
                   uninstaller, ret, regVars, luid, result, devVars, histVars>>

\* iface.rs:40-42, then the function has returned
ci_drop_devinfo_guard ==
    /\ pc = "ci_drop_devinfo_guard"
    /\ \E ok \in BOOLEAN :
         /\ Call("destroy_device_info_list", ok)
         /\ devinfo' = IF ok THEN "destroyed" ELSE "destroy failed"
    /\ ReturnFromCreateInterface(ret)
    /\ UNCHANGED <<hostVars, present, caller, component_id, drvlist, node, selVars,
                   uninstaller, ret, regVars, luid, devVars, histVars>>

create_interface ==
    \/ ci_create_device_info_list
    \/ ci_class_name_from_guid
    \/ ci_create_device_info
    \/ ci_set_selected_device
    \/ ci_set_device_registry_property
    \/ ci_build_driver_info_list
    \/ ci_enum_driver_info
    \/ ci_enum_done
    \/ ci_register_device
    \/ ci_register_coinstallers
    \/ ci_install_interfaces
    \/ ci_install_device
    \/ ci_open_dev_reg_key
    \/ ci_wait_iftype
    \/ ci_notify_iftype
    \/ ci_wait_luidindex
    \/ ci_notify_luidindex
    \/ ci_read_iftype
    \/ ci_read_luidindex
    \/ ci_defuse
    \/ ci_drop_uninstaller
    \/ ci_drop_drvlist_guard
    \/ ci_drop_devinfo_guard

(***************************************************************************)
(* check_interface, iface.rs:144-208.                                      *)
(***************************************************************************)
\* check_interface hands r to its caller: Device::open (lib.rs:124)
\* propagates an error with `?` and goes on to open the handle otherwise
ReturnFromCheckInterface(r) ==
    IF caller = "Device::open"
    THEN IF IsErr(r) THEN pc' = "done" /\ result' = r
         ELSE pc' = "do_open_interface" /\ result' = result
    ELSE pc' = "iface_idle" /\ result' = r

\* iface.rs:145-151
chk_get_class_devs ==
    /\ pc = "chk_get_class_devs"
    /\ \E ok \in BOOLEAN :
         /\ Call("get_class_devs", ok)
         /\ IF ok
            THEN /\ devinfo' = "open" /\ member_index' = 0
                 /\ pc' = "chk_enum_device_info"
                 /\ UNCHANGED <<ret, result>>
            ELSE /\ ret' = OsError("get_class_devs")
                 /\ UNCHANGED <<devinfo, member_index>>
                 /\ ReturnFromCheckInterface(OsError("get_class_devs"))
    /\ UNCHANGED <<hostVars, present, caller, component_id, drvlist, node,
                   driver_version, selected, uninstaller, regVars, luid, devVars,
                   histVars>>

\* iface.rs:199 with the comparison of the identifiers dropped
LuidDiffers_never(a, b) == FALSE

\* iface.rs:199 `luid.Value != luid2.Value`
LuidDiffers(a, b) == a # b

\* iface.rs:156-204 with the hardware ID compared exactly (165)
CheckExamine_casesensitive(d, cid, l) ==
    IF ~d.enum_ok THEN "continue"
    ELSE IF ~d.hw_ok THEN "continue"
    ELSE IF d.hw # cid THEN "continue"
    ELSE IF ~d.key_ok THEN "continue"
    ELSE IF d.IfType = NoValue THEN "continue"
    ELSE IF d.NetLuidIndex = NoValue THEN "continue"
    ELSE IF LuidDiffers(l, BuildLuid(d.IfType, d.NetLuidIndex)) THEN "continue"
    ELSE "found"

\* iface.rs:156-204 what one iteration of the scan of check_interface does
\* with the device d
CheckExamine(d, cid, l) ==
    IF ~d.enum_ok THEN "continue"                                  \* 156-158
    ELSE IF ~d.hw_ok THEN "continue"                               \* 161-164
    ELSE IF ~HardwareIdMatches(d.hw, cid) THEN "continue"          \* 165-167
    ELSE IF ~d.key_ok THEN "continue"                              \* 169-179
    ELSE IF d.IfType = NoValue THEN "continue"                     \* 181-184
    ELSE IF d.NetLuidIndex = NoValue THEN "continue"               \* 186-189
    ELSE IF LuidDiffers(l, BuildLuid(d.IfType, d.NetLuidIndex)) THEN "continue"  \* 191-201
    ELSE "found"                                                   \* 204

\* iface.rs:153-205 with an enumeration error at an index returned by `?`
\* instead of skipped (156-158)
chk_enum_device_info_failing ==
    /\ pc = "chk_enum_device_info"
    /\ member_index < Len(present)
    /\ LET d == present[member_index + 1]
           what == IF ~d.enum_ok THEN "return" ELSE CheckExamine(d, component_id, luid)
       IN /\ calls' = Append(calls, Entry("enum_device_info", member_index, d.enum_ok))
          /\ member_index' = member_index + 1
          /\ pc' = IF what \in {"found", "return"} THEN "chk_drop_guard" ELSE pc
          /\ ret' = IF what = "found" THEN Ok
                    ELSE IF what = "return" THEN OsError("enum_device_info") ELSE ret
    /\ UNCHANGED <<hostVars, present, caller, component_id, devinfo, drvlist, node,
                   driver_version, selected, uninstaller, regVars, luid, result,
                   devVars, histVars>>

\* iface.rs:153-205 one iteration of `while let Some(..) = enum_device_info(..)`
chk_enum_device_info ==
    /\ pc = "chk_enum_device_info"
    /\ member_index < Len(present)
    /\ LET d == present[member_index + 1]
           what == CheckExamine(d, component_id, luid)
       IN /\ calls' = Append(calls, Entry("enum_device_info", member_index, d.enum_ok))
          /\ member_index' = member_index + 1
          /\ pc' = IF what = "found" THEN "chk_drop_guard" ELSE pc
          /\ ret' = IF what = "found" THEN Ok ELSE ret
    /\ UNCHANGED <<hostVars, present, caller, component_id, devinfo, drvlist, node,
                   driver_version, selected, uninstaller, regVars, luid, result,
                   devVars, histVars>>

\* iface.rs:153 no more items, then 207
chk_enum_done ==
    /\ pc = "chk_enum_device_info"
    /\ member_index >= Len(present)
    /\ calls' = Append(calls, Entry("enum_device_info", member_index, FALSE))
    /\ ret' = NotFound("Device not found")
    /\ pc' = "chk_drop_guard"
    /\ UNCHANGED <<hostVars, present, caller, component_id, devinfo, drvlist, node,
                   selVars, uninstaller, regVars, luid, result, devVars, histVars>>

\* iface.rs:147-149, then the function has returned
chk_drop_guard ==
    /\ pc = "chk_drop_guard"
    /\ \E ok \in BOOLEAN :
         /\ Call("destroy_device_info_list", ok)
         /\ devinfo' = IF ok THEN "destroyed" ELSE "destroy failed"
    /\ ReturnFromCheckInterface(ret)
    /\ UNCHANGED <<hostVars, present, caller, component_id, drvlist, node, selVars,
                   uninstaller, ret, regVars, luid, devVars, histVars>>

check_interface ==
    \/ chk_get_class_devs
    \/ chk_enum_device_info
    \/ chk_enum_done
    \/ chk_drop_guard

(***************************************************************************)
(* delete_interface, iface.rs:211-276.                                     *)
(***************************************************************************)
\* lib.rs:152-154 with `self` forgotten, not dropped, when delete_interface
\* returns an error
ReturnFromDeleteInterface_leak(r) ==
    /\ result' = r
    /\ pc' = IF caller = "Device::delete"
             THEN (IF r = Ok THEN "dd_drop" ELSE "done")
             ELSE "iface_idle"
    /\ deleted_ok' = (deleted_ok \/ r = Ok)

\* delete_interface hands r to its caller: Device::delete (lib.rs:152-154)
\* returns it and `self` is dropped
ReturnFromDeleteInterface(r) ==
    /\ result' = r
    /\ pc' = IF caller = "Device::delete" THEN "dd_drop" ELSE "iface_idle"
    /\ deleted_ok' = (deleted_ok \/ r = Ok)

\* iface.rs:212-218
del_get_class_devs ==
    /\ pc = "del_get_class_devs"
    /\ \E ok \in BOOLEAN :
         /\ Call("get_class_devs", ok)
         /\ IF ok
            THEN /\ devinfo' = "open" /\ member_index' = 0
                 /\ pc' = "del_enum_device_info"
                 /\ UNCHANGED <<ret, result, deleted_ok>>
            ELSE /\ ret' = OsError("get_class_devs")
                 /\ UNCHANGED <<devinfo, member_index>>
                 /\ ReturnFromDeleteInterface(OsError("get_class_devs"))
    /\ UNCHANGED <<hostVars, present, caller, component_id, drvlist, node,
                   driver_version, selected, uninstaller, regVars, luid, devVars,
                   present0>>

\* iface.rs:223-272 with the comparison of the identifiers (267-269) missing
DeleteExamine_anyluid(d, cid, l) ==
    IF ~d.enum_ok THEN "continue"
    ELSE IF ~d.hw_ok THEN "continue"
    ELSE IF ~HardwareIdMatches(d.hw, cid) THEN "continue"
    ELSE IF ~d.key_ok THEN "continue"
    ELSE IF d.IfType = NoValue THEN "continue"
    ELSE IF d.NetLuidIndex = NoValue THEN "continue"
    ELSE "remove"

\* iface.rs:223-272 what one iteration of the scan of delete_interface does
\* with the device d
DeleteExamine(d, cid, l) ==
    IF ~d.enum_ok THEN "continue"                                  \* 223-225
    ELSE IF ~d.hw_ok THEN "continue"                               \* 228-231
    ELSE IF ~HardwareIdMatches(d.hw, cid) THEN "continue"          \* 232-234
    ELSE IF ~d.key_ok THEN "continue"                              \* 236-246
    ELSE IF d.IfType = NoValue THEN "continue"                     \* 249-252
    ELSE IF d.NetLuidIndex = NoValue THEN "continue"               \* 254-257
    ELSE IF l # BuildLuid(d.IfType, d.NetLuidIndex) THEN "continue"  \* 259-269
    ELSE "remove"                                                  \* 272

\* iface.rs:220-270 one iteration of the scan
del_enum_device_info ==
    /\ pc = "del_enum_device_info"
    /\ member_index < Len(present)
    /\ LET d == present[member_index + 1]
           what == DeleteExamine(d, component_id, luid)
       IN /\ calls' = Append(calls, Entry("enum_device_info", member_index, d.enum_ok))
          /\ member_index' = member_index + 1
          /\ pc' = IF what = "remove" THEN "del_remove" ELSE pc
    /\ UNCHANGED <<hostVars, present, caller, component_id, devinfo, drvlist, node,
                   driver_version, selected, uninstaller, ret, regVars, luid, result,
                   devVars, histVars>>

\* the REMOVE of delete_interface applied to the device before the one
\* the scan stopped at
del_remove_target_off(mi) == IF mi > 1 THEN mi - 1 ELSE mi

\* iface.rs:272 the device the scan stopped at: devinfo_data of the
\* iteration that incremented member_index to mi
del_remove_target(mi) == mi

\* iface.rs:272 `return ffi::call_class_installer(.., DIF_REMOVE)`
del_remove ==
    /\ pc = "del_remove"
    /\ \E ok \in BOOLEAN :
         /\ calls' = Append(calls, Entry("DIF_REMOVE", del_remove_target(member_index), ok))
         /\ IF ok
            THEN /\ present' = RemoveAt(present, del_remove_target(member_index))
                 /\ ret' = Ok
                 /\ node' = IF present[del_remove_target(member_index)].mine
                            THEN "removed" ELSE node
            ELSE /\ ret' = OsError("DIF_REMOVE")
                 /\ UNCHANGED <<present, node>>
    /\ pc' = "del_drop_guard"
    /\ UNCHANGED <<hostVars, caller, component_id, devinfo, drvlist, selVars,
                   uninstaller, regVars, luid, result, devVars, histVars>>

\* iface.rs:220 no more items, then 275
del_enum_done ==
    /\ pc = "del_enum_device_info"
    /\ member_index >= Len(present)
    /\ calls' = Append(calls, Entry("enum_device_info", member_index, FALSE))
    /\ ret' = NotFound("Device not found")
    /\ pc' = "del_drop_guard"
    /\ UNCHANGED <<hostVars, present, caller, component_id, devinfo, drvlist, node,
                   selVars, uninstaller, regVars, luid, result, devVars, histVars>>

\* iface.rs:214-216, then the function has returned
del_drop_guard ==
    /\ pc = "del_drop_guard"
    /\ \E ok \in BOOLEAN :
         /\ Call("destroy_device_info_list", ok)
         /\ devinfo' = IF ok THEN "destroyed" ELSE "destroy failed"
    /\ ReturnFromDeleteInterface(ret)
    /\ UNCHANGED <<hostVars, present, caller, component_id, drvlist, node, selVars,
                   uninstaller, ret, regVars, luid, devVars, present0>>

delete_interface ==
    \/ del_get_class_devs
    \/ del_enum_device_info
    \/ del_remove
    \/ del_enum_done
    \/ del_drop_guard

(***************************************************************************)
(* Device, lib.rs:65-253.                                                  *)
(***************************************************************************)
\* the operation is entered: its OS calls are logged from here
Enter(who, first) ==
    /\ caller' = who
    /\ pc' = first
    /\ calls' = <<>>
    /\ present0' = present
    /\ ret' = NoResult
    /\ result' = NoResult
    /\ devinfo' = "none"

\* lib.rs:83-84 Device::create(component_id) calls create_interface
DeviceCreate ==
    /\ pc = "idle"
    /\ Enter("Device::create", "ci_create_device_info_list")
    /\ UNCHANGED <<hostVars, present, component_id, drvlist, node, selVars,
                   uninstaller, regVars, luid, devVars, deleted_ok>>

\* lib.rs:87 `let start = time::Instant::now()`
dc_start ==
    /\ pc = "dc_start"
    /\ start' = now
    /\ pc' = "dc_check_deadline"
    /\ UNCHANGED <<hostVars, present, events, caller, component_id, devinfo, drvlist,
                   node, selVars, uninstaller, ret, if_type, luid_index, luid, waits,
                   calls, result, dev, handle, closes, late, histVars>>

\* the clock advances while the handle-acquisition loop runs
Tick ==
    /\ pc \in {"dc_check_deadline", "dc_open_interface"}
    /\ now - start < MaxTicks
    /\ now' = now + 1
    /\ UNCHANGED <<drivers, alias, present, events, pc, caller, component_id, devinfo,
                   drvlist, node, selVars, uninstaller, ret, if_type, luid_index, luid,
                   waits, calls, result, devVars, histVars>>

\* lib.rs:91 with `>` compared against twice the deadline
DeadlinePassed_double(n, s) == n - s > 2 * Deadline

\* lib.rs:91 `now - start > time::Duration::from_secs(2)`
DeadlinePassed(n, s) == n - s > Deadline

\* lib.rs:90-93
dc_check_deadline ==
    /\ pc = "dc_check_deadline"
    /\ IF DeadlinePassed(now, start)
       THEN result' = TimedOut("Interface timed out") /\ pc' = "done"
       ELSE result' = result /\ pc' = "dc_open_interface"
    /\ UNCHANGED <<hostVars, present, events, caller, component_id, devinfo, drvlist,
                   node, selVars, uninstaller, ret, if_type, luid_index, luid, waits,
                   calls, devVars, histVars>>

\* iface.rs:279-291 what open_interface can return: the handle, or the
\* error of luid_to_guid (ffi.rs:91-97), of string_from_guid (ffi.rs:59-72,
\* an OS error or a decoding error) or of create_file (ffi.rs:120-140)
OpenInterfaceResults ==
    {Ok, OsError("luid_to_guid"), OsError("string_from_guid"),
     Other("string_from_guid"), OsError("create_file")}

\* lib.rs:95-108 with the error of a failed attempt returned by `?`
dc_open_interface_failfast ==
    /\ pc = "dc_open_interface"
    /\ late < MaxLate
    /\ late' = IF now - start > Deadline THEN late + 1 ELSE late
    /\ \E r \in OpenInterfaceResults :
         /\ ret' = r
         /\ IF r = Ok
            THEN /\ handle' = "open" /\ dev' = "live" /\ result' = Ok /\ pc' = "live"
            ELSE /\ pc' = "done" /\ result' = r /\ UNCHANGED <<handle, dev>>
    /\ UNCHANGED <<hostVars, present, events, caller, component_id, devinfo, drvlist,
                   node, selVars, uninstaller, if_type, luid_index, luid, waits,
                   calls, closes, start, histVars>>

\* lib.rs:95-108 one open attempt (iface.rs:279-291), its result in ret: a
\* failure yields and goes round the loop, a success builds the Device
dc_open_interface ==
    /\ pc = "dc_open_interface"
    /\ late < MaxLate
    /\ late' = IF now - start > Deadline THEN late + 1 ELSE late
    /\ \E r \in OpenInterfaceResults :
         /\ ret' = r
         /\ IF r = Ok
            THEN /\ handle' = "open" /\ dev' = "live" /\ result' = Ok /\ pc' = "live"
            ELSE /\ pc' = "dc_check_deadline" /\ UNCHANGED <<handle, dev, result>>
    /\ UNCHANGED <<hostVars, present, events, caller, component_id, devinfo, drvlist,
                   node, selVars, uninstaller, if_type, luid_index, luid, waits,
                   calls, closes, start, histVars>>

\* identifiers the OS may resolve an interface name to: those of the
\* present devices with both registry values, and one of no present device
ResolvableLuids ==
    {BuildLuid(present[k].IfType, present[k].NetLuidIndex) :
        k \in {j \in DOMAIN present :
                 present[j].IfType # NoValue /\ present[j].NetLuidIndex # NoValue}}
    \cup {BuildLuid(6, 999)}

\* lib.rs:122 Device::open(component_id, name)
DeviceOpen ==
    /\ pc = "idle"
    /\ Enter("Device::open", "do_alias_to_luid")
    /\ UNCHANGED <<hostVars, present, component_id, drvlist, node, selVars,
                   uninstaller, regVars, luid, devVars, deleted_ok>>

\* lib.rs:123 `ffi::alias_to_luid(name)?`, one translation (ffi.rs:74-81)
do_alias_to_luid ==
    /\ pc = "do_alias_to_luid"
    /\ \/ /\ Call("alias_to_luid", FALSE)
          /\ result' = OsError("alias_to_luid")
          /\ pc' = "done"
          /\ luid' = luid
       \/ /\ Call("alias_to_luid", TRUE)
          /\ \E l \in ResolvableLuids : luid' = l
          /\ pc' = "chk_get_class_devs"
          /\ result' = result
    /\ UNCHANGED <<hostVars, present, caller, component_id, devinfo, drvlist, node,
                   selVars, uninstaller, ret, regVars, devVars, histVars>>

\* lib.rs:126 with a failed attempt made again
do_open_interface_retrying ==
    /\ pc = "do_open_interface"
    /\ \E ok \in BOOLEAN :
         /\ Call("open_interface", ok)
         /\ IF ok
            THEN /\ handle' = "open" /\ dev' = "live" /\ result' = Ok /\ pc' = "live"
            ELSE /\ result' = result /\ pc' = pc
                 /\ UNCHANGED <<handle, dev>>
    /\ UNCHANGED <<hostVars, present, events, caller, component_id, devinfo, drvlist,
                   node, selVars, uninstaller, ret, if_type, luid_index, luid, waits,
                   closes, start, late, histVars>>

\* lib.rs:126-132 `iface::open_interface(&luid)?`, one attempt
do_open_interface ==
    /\ pc = "do_open_interface"
    /\ \E ok \in BOOLEAN :
         /\ Call("open_interface", ok)
         /\ IF ok
            THEN /\ handle' = "open" /\ dev' = "live" /\ result' = Ok /\ pc' = "live"
            ELSE /\ result' = OsError("open_interface") /\ pc' = "done"
                 /\ UNCHANGED <<handle, dev>>
    /\ UNCHANGED <<hostVars, present, events, caller, component_id, devinfo, drvlist,
                   node, selVars, uninstaller, ret, if_type, luid_index, luid, waits,
                   closes, start, late, histVars>>

\* The operations on an open Device use its handle or its identifier and
\* change neither.  Each is named with the call whose error it returns:
\* up, down (lib.rs:159-167, 226-230) and get_mac, get_version, get_mtu
\* (170-187) return that of device_io_control; get_name (190-192) that of
\* luid_to_alias; set_name (195-198) and set_ip (212-222) that of
\* luid_to_alias or of netsh (netsh.rs:3-19); read and write (233-242) that
\* of read_file and write_file; flush (244-246) returns Ok.
DeviceOps ==
    { <<"up", "device_io_control">>, <<"down", "device_io_control">>,
      <<"get_mac", "device_io_control">>, <<"get_version", "device_io_control">>,
      <<"get_mtu", "device_io_control">>, <<"get_name", "luid_to_alias">>,
      <<"set_name", "luid_to_alias">>, <<"set_name", "netsh">>,
      <<"set_ip", "luid_to_alias">>, <<"set_ip", "netsh">>,
      <<"read", "read_file">>, <<"write", "write_file">>, <<"flush", "-">> }

\* lib.rs:195-198 with set_name resolving the identifier again from the new
\* name and storing it
DeviceOp_relocating ==
    /\ pc = "live"
    /\ \E op \in DeviceOps, ok \in BOOLEAN, newname \in NewNames :
         /\ result' = IF ok \/ op[2] = "-" THEN Ok
                      ELSE IF op[2] = "netsh" THEN Other("Failed to execute netsh")
                      ELSE OsError(op[2])
         /\ alias' = IF op[1] = "set_name" /\ ok THEN newname ELSE alias
         /\ IF op[1] = "set_name" /\ ok
            THEN \E l \in {luid, ZeroLuid} : luid' = l
            ELSE luid' = luid
    /\ UNCHANGED <<drivers, now, present, events, pc, caller, component_id, devinfo,
                   drvlist, node, selVars, uninstaller, ret, if_type, luid_index,
                   waits, calls, devVars, histVars>>

\* lib.rs:195-198 with netsh.rs:21-23: the name set_name leaves the interface
\* with; netsh renames it when both luid_to_alias and netsh succeed
set_name(op, ok, newname) ==
    IF op[1] = "set_name" /\ ok THEN newname ELSE alias

DeviceOp ==
    /\ pc = "live"
    /\ \E op \in DeviceOps, ok \in BOOLEAN, newname \in NewNames :
         /\ result' = IF ok \/ op[2] = "-" THEN Ok
                      ELSE IF op[2] = "netsh" THEN Other("Failed to execute netsh")
                      ELSE OsError(op[2])
         /\ alias' = set_name(op, ok, newname)
    /\ UNCHANGED <<drivers, now, present, events, pc, caller, component_id, devinfo,
                   drvlist, node, selVars, uninstaller, ret, if_type, luid_index, luid,
                   waits, calls, devVars, histVars>>

\* lib.rs:151-152 with the handle closed before delete_interface is called
DeviceDelete_closefirst ==
    /\ pc = "live"
    /\ Enter("Device::delete", "del_get_class_devs")
    /\ handle' = "closed"
    /\ closes' = closes + 1
    /\ UNCHANGED <<hostVars, present, component_id, drvlist, node, selVars,
                   uninstaller, regVars, luid, dev, start, late, deleted_ok>>

\* lib.rs:151-152 Device::delete(self) calls delete_interface with the
\* stored component_id and luid
DeviceDelete ==
    /\ pc = "live"
    /\ Enter("Device::delete", "del_get_class_devs")
    /\ UNCHANGED <<hostVars, present, component_id, drvlist, node, selVars,
                   uninstaller, regVars, luid, devVars, deleted_ok>>

\* lib.rs:249-253 Drop for Device: close_handle(self.handle)
DropBody ==
    /\ handle' = "closed"
    /\ closes' = closes + 1
    /\ dev' = "dropped"
    /\ pc' = "done"
    /\ calls' = Append(calls, Entry("close_handle", 0, TRUE))

\* lib.rs:249-253 with Drop removing the adapters of the class before it
\* closes the handle
DeviceDrop_removing ==
    /\ pc = "live"
    /\ handle' = "closed"
    /\ closes' = closes + 1
    /\ dev' = "dropped"
    /\ pc' = "done"
    /\ calls' = calls \o <<Entry("DIF_REMOVE", 0, TRUE), Entry("close_handle", 0, TRUE)>>
    /\ present' = <<>>
    /\ caller' = "drop"
    /\ UNCHANGED <<hostVars, events, component_id, devinfo, drvlist, node, selVars,
                   uninstaller, ret, if_type, luid_index, luid, waits, result,
                   start, late, histVars>>

\* the Device goes out of scope without delete
DeviceDrop ==
    /\ pc = "live"
    /\ DropBody
    /\ caller' = "drop"
    /\ UNCHANGED <<hostVars, present, events, component_id, devinfo, drvlist, node,
                   selVars, uninstaller, ret, if_type, luid_index, luid, waits, result,
                   start, late, histVars>>

\* lib.rs:151-155 `self` is dropped when delete returns, with Ok or with
\* the error of delete_interface
dd_drop ==
    /\ pc = "dd_drop"
    /\ DropBody
    /\ UNCHANGED <<hostVars, present, events, caller, component_id, devinfo, drvlist,
                   node, selVars, uninstaller, ret, if_type, luid_index, luid, waits,
                   result, start, late, histVars>>

(***************************************************************************)
(* Specifications.                                                         *)
(***************************************************************************)
\* the program before any operation is called, on a host with the driver
\* packages d and the present devices p
Boot(d, p, cid) ==
    /\ drivers = d
    /\ present = p
    /\ present0 = p
    /\ now = 0
    /\ events = 0
    /\ alias = DefaultAlias
    /\ component_id = cid
    /\ devinfo = "none"
    /\ drvlist = "none"
    /\ node = "none"
    /\ driver_version = 0
    /\ member_index = 0
    /\ selected = 0
    /\ uninstaller = FALSE
    /\ ret = NoResult
    /\ if_type = 0
    /\ luid_index = 0
    /\ waits = 0
    /\ calls = <<>>
    /\ result = NoResult
    /\ dev = "none"
    /\ handle = "none"
    /\ closes = 0
    /\ start = 0
    /\ late = 0
    /\ deleted_ok = FALSE

\* component identifiers a caller passes
ComponentIds == {HARDWARE_ID, HARDWARE_ID_MIXED}

GoodDriver(v, hw) == Candidate(v, hw, TRUE, TRUE, TRUE, TRUE)

\* hosts of the lifecycle specification: no driver package, a package of
\* another vendor only, three packages of the family
LifecycleDrivers ==
    { <<>>,
      <<GoodDriver(5, OTHER_VENDOR_ID)>>,
      <<GoodDriver(3, HARDWARE_ID), GoodDriver(7, HARDWARE_ID_UPPER),
        GoodDriver(5, HARDWARE_ID)>> }

PresentDevice(hw, t, i) == Device(hw, t, i, TRUE, TRUE, TRUE, FALSE)

LifecyclePresent ==
    { <<>>,
      <<PresentDevice(OTHER_VENDOR_ID, 6, 42)>>,
      <<PresentDevice(HARDWARE_ID_UPPER, 6, 43)>>,
      <<PresentDevice(OTHER_VENDOR_ID, 6, 42), PresentDevice(HARDWARE_ID, 6, 43)>> }

\* The whole life of one Device: create or open, operations, delete or drop.
\* The adapter of a live Device is present, so the scan of its delete
\* always finds it: the step del_enum_done belongs to ScanSpec.
Init ==
    /\ \E d \in LifecycleDrivers, p \in LifecyclePresent, cid \in ComponentIds :
         Boot(d, p, cid)
    /\ luid = ZeroLuid
    /\ pc = "idle"
    /\ caller = "none"

Next ==
    \/ DeviceCreate
    \/ create_interface
    \/ dc_start
    \/ Tick
    \/ dc_check_deadline
    \/ dc_open_interface
    \/ DeviceOpen
    \/ do_alias_to_luid
    \/ check_interface
    \/ do_open_interface
    \/ DeviceOp
    \/ DeviceDelete
    \/ del_get_class_devs
    \/ del_enum_device_info
    \/ del_remove
    \/ del_drop_guard
    \/ DeviceDrop
    \/ dd_drop

Spec == Init /\ [][Next]_vars

\* create_interface through driver selection, on every driver-info list of
\* the bound: iface.rs:37-98 and the guards of its early returns.  A run
\* that selects a driver ends where REGISTER_DEVICE is about to be invoked.
SelectInit ==
    /\ \E d \in SeqsUpTo(Candidates, MaxDrivers), cid \in ComponentIds :
         Boot(d, <<>>, cid)
    /\ luid = ZeroLuid
    /\ pc = "ci_create_device_info_list"
    /\ caller = "create_interface"

SelectNext ==
    \/ ci_create_device_info_list
    \/ ci_class_name_from_guid
    \/ ci_create_device_info
    \/ ci_set_selected_device
    \/ ci_set_device_registry_property
    \/ ci_build_driver_info_list
    \/ ci_enum_driver_info
    \/ ci_enum_done
    \/ ci_drop_drvlist_guard
    \/ ci_drop_devinfo_guard

SelectSpec == SelectInit /\ [][SelectNext]_vars

\* check_interface and delete_interface called directly, any number of
\* times with the same arguments, on every list of present devices of the
\* bound
CallCheckInterface ==
    /\ pc = "iface_idle"
    /\ Enter("check_interface", "chk_get_class_devs")
    /\ UNCHANGED <<hostVars, present, component_id, drvlist, node, selVars,
                   uninstaller, regVars, luid, devVars, deleted_ok>>

CallDeleteInterface ==
    /\ pc = "iface_idle"
    /\ Enter("delete_interface", "del_get_class_devs")
    /\ UNCHANGED <<hostVars, present, component_id, drvlist, node, selVars,
                   uninstaller, regVars, luid, devVars, deleted_ok>>

\* NetLuidIndex values of the present devices; the OS gives every adapter
\* its own NET_LUID, so no two devices of a host share one
ScanIndexes == 42..(41 + MaxDevices)

\* the devices a host may hold: sound ones of this family (in either case)
\* and of another vendor, and ones of this family on which one call of the
\* scan fails or one registry value is missing
ScanDevices ==
    UNION {
      { Device(HARDWARE_ID, 6, i, TRUE, TRUE, TRUE, FALSE),
        Device(HARDWARE_ID_UPPER, 6, i, TRUE, TRUE, TRUE, FALSE),
        Device(OTHER_VENDOR_ID, 6, i, TRUE, TRUE, TRUE, FALSE),
        Device(HARDWARE_ID, 6, i, FALSE, TRUE, TRUE, FALSE),
        Device(HARDWARE_ID, 6, i, TRUE, FALSE, TRUE, FALSE),
        Device(HARDWARE_ID, 6, i, TRUE, TRUE, FALSE, FALSE),
        Device(HARDWARE_ID, NoValue, i, TRUE, TRUE, TRUE, FALSE),
        Device(HARDWARE_ID, 6, NoValue, TRUE, TRUE, TRUE, FALSE) } : i \in ScanIndexes }

\* no two devices with both registry values carry the same pair
DistinctLuids(p) ==
    \A j, k \in DOMAIN p :
        (j # k /\ p[j].IfType # NoValue /\ p[j].NetLuidIndex # NoValue
               /\ p[k].IfType # NoValue /\ p[k].NetLuidIndex # NoValue)
        => <<p[j].IfType, p[j].NetLuidIndex>> # <<p[k].IfType, p[k].NetLuidIndex>>

\* identifiers a caller asks for: those of the first two indexes, and one
\* whose reserved bits are not zero
ScanLuids ==
    { BuildLuid(6, 42), BuildLuid(6, 43), [BuildLuid(6, 42) EXCEPT ![1] = 1] }

ScanInit ==
    /\ \E p \in {q \in SeqsUpTo(ScanDevices, MaxDevices) : DistinctLuids(q)},
          cid \in ComponentIds :
         Boot(<<>>, p, cid)
    /\ \E l \in ScanLuids : luid = l
    /\ pc = "iface_idle"
    /\ caller = "none"

ScanNext ==
    \/ CallCheckInterface
    \/ check_interface
    \/ CallDeleteInterface
    \/ delete_interface

ScanSpec == ScanInit /\ [][ScanNext]_vars

\* The three enumeration loops, each scheduled until it leaves its loop:
\* the selection of create_interface and the scans of check_interface and
\* delete_interface called directly, on lists of sound members, members of
\* another vendor, members at whose index the enumeration fails, and
\* candidates whose HardwareID does not decode.
EnumCandidates ==
    { Candidate(5, HARDWARE_ID, TRUE, TRUE, TRUE, TRUE),
      Candidate(7, HARDWARE_ID_UPPER, TRUE, TRUE, TRUE, TRUE),
      Candidate(5, OTHER_VENDOR_ID, TRUE, TRUE, TRUE, TRUE),
      Candidate(5, HARDWARE_ID, FALSE, TRUE, TRUE, TRUE),
      Candidate(5, OTHER_VENDOR_ID, TRUE, TRUE, FALSE, TRUE) }

EnumDevices ==
    UNION {
      { Device(HARDWARE_ID, 6, i, TRUE, TRUE, TRUE, FALSE),
        Device(OTHER_VENDOR_ID, 6, i, TRUE, TRUE, TRUE, FALSE),
        Device(HARDWARE_ID, 6, i, FALSE, TRUE, TRUE, FALSE) } : i \in ScanIndexes }

EnumInit ==
    \/ /\ \E d \in SeqsUpTo(EnumCandidates, MaxDrivers), cid \in ComponentIds :
            Boot(d, <<>>, cid)
       /\ luid = ZeroLuid
       /\ pc = "ci_create_device_info_list"
       /\ caller = "create_interface"
    \/ /\ \E p \in {q \in SeqsUpTo(EnumDevices, MaxDevices) : DistinctLuids(q)},
             cid \in ComponentIds :
            Boot(<<>>, p, cid)
       /\ \E l \in ScanLuids : luid = l
       /\ pc = "iface_idle"
       /\ caller = "none"

EnumNext == SelectNext \/ ScanNext

EnumSpec ==
    /\ EnumInit
    /\ [][EnumNext]_vars
    /\ WF_vars(ci_enum_driver_info \/ ci_enum_done)
    /\ WF_vars(chk_enum_device_info \/ chk_enum_done)
    /\ WF_vars(del_enum_device_info \/ del_enum_done)

\* The Device lifecycle together with the two scans called directly: every
\* exit path of create_interface, check_interface and delete_interface.
AllInit == Init \/ ScanInit

AllNext == Next \/ ScanNext

AllSpec == AllInit /\ [][AllNext]_vars

\* registry values of 32 bits (RegKey::get_value::<u32>) around the widths
\* of the two bitfields
U32Samples ==
    {0, 6, 42, 255, 256, 65535, 65536, 65542, 16777215, 16777216, 16777258,
     2147483647}

\* create_interface from the re-read of the two registry values to its
\* return (iface.rs:126-140), the driver key of the new node holding any
\* two values of U32Samples
PackInit ==
    /\ \E t \in U32Samples, i \in U32Samples :
         /\ present = <<Device(HARDWARE_ID, t, i, TRUE, TRUE, TRUE, TRUE)>>
         /\ drivers = <<GoodDriver(7, HARDWARE_ID)>>
    /\ present0 = <<>>
    /\ now = 0
    /\ events = 0
    /\ alias = DefaultAlias
    /\ component_id = HARDWARE_ID
    /\ devinfo = "open"
    /\ drvlist = "built"
    /\ node = "registered"
    /\ driver_version = 7
    /\ member_index = 1
    /\ selected = 1
    /\ uninstaller = TRUE
    /\ ret = NoResult
    /\ if_type = 0
    /\ luid_index = 0
    /\ luid = ZeroLuid
    /\ waits = 0
    /\ calls = <<>>
    /\ result = NoResult
    /\ dev = "none"
    /\ handle = "none"
    /\ closes = 0
    /\ start = 0
    /\ late = 0
    /\ deleted_ok = FALSE
    /\ pc = "ci_read_iftype"
    /\ caller = "create_interface"

PackNext ==
    \/ ci_read_iftype
    \/ ci_read_luidindex
    \/ ci_defuse
    \/ ci_drop_uninstaller
    \/ ci_drop_drvlist_guard
    \/ ci_drop_devinfo_guard

PackSpec == PackInit /\ [][PackNext]_vars

\* identifiers a caller asks check_interface and delete_interface for: one
\* that registry values build, the same with a reserved bit set in its
\* first and in its third byte, and the zero identifier
RequestedLuids ==
    { BuildLuid(6, 42),
      [BuildLuid(6, 42) EXCEPT ![1] = 1],
      [BuildLuid(6, 42) EXCEPT ![3] = 128],
      ZeroLuid }

\* The identifier built from 32-bit registry values, in create_interface
\* (iface.rs:126-140) and in the scans of check_interface and
\* delete_interface (191-201, 259-269) on one present device whose driver
\* key holds any two values of U32Samples.
LuidInit ==
    \/ PackInit
    \/ /\ \E t \in U32Samples, i \in U32Samples :
            Boot(<<>>, <<PresentDevice(HARDWARE_ID, t, i)>>, HARDWARE_ID)
       /\ \E l \in RequestedLuids : luid = l
       /\ pc = "iface_idle"
       /\ caller = "none"

LuidNext == PackNext \/ ScanNext

LuidSpec == LuidInit /\ [][LuidNext]_vars

\* identifiers create_interface may have returned to Device::create
LoopLuids == {BuildLuid(6, 42), BuildLuid(6, 100), BuildLuid(24, 7)}

\* The handle-acquisition loop of Device::create (lib.rs:87-102) from the
\* return of create_interface, whatever the clock shows then.  The clock
\* advances and the thread is scheduled: std::thread::yield_now (lib.rs:97)
\* gives the processor up, it does not block.
LoopInit ==
    /\ \E cid \in ComponentIds, l \in LoopLuids, n \in 0..MaxTicks :
         /\ drivers = <<GoodDriver(7, HARDWARE_ID)>>
         /\ present = <<Device(cid, IfType(l), NetLuidIndex(l), TRUE, TRUE, TRUE, TRUE)>>
         /\ component_id = cid
         /\ luid = l
         /\ if_type = IfType(l)
         /\ luid_index = NetLuidIndex(l)
         /\ now = n
    /\ present0 = <<>>
    /\ events = 0
    /\ alias = DefaultAlias
    /\ devinfo = "destroyed"
    /\ drvlist = "destroyed"
    /\ node = "registered"
    /\ driver_version = 7
    /\ member_index = 1
    /\ selected = 1
    /\ uninstaller = FALSE
    /\ ret = Ok
    /\ waits = 0
    /\ calls = <<>>
    /\ result = NoResult
    /\ dev = "none"
    /\ handle = "none"
    /\ closes = 0
    /\ start = 0
    /\ late = 0
    /\ deleted_ok = FALSE
    /\ pc = "dc_start"
    /\ caller = "Device::create"

LoopNext ==
    \/ dc_start
    \/ Tick
    \/ dc_check_deadline
    \/ dc_open_interface

LoopSpec ==
    /\ LoopInit
    /\ [][LoopNext]_vars
    /\ WF_vars(dc_start)
    /\ WF_vars(Tick)
    /\ WF_vars(dc_check_deadline)
    /\ WF_vars(dc_open_interface)

(***************************************************************************)
(* Properties.                                                             *)
(***************************************************************************)
\* number of calls of `name` in the log that succeeded
Obtained(name) ==
    Cardinality({k \in DOMAIN calls : calls[k].call = name /\ calls[k].ok})

\* some call of `name` in the log failed
Failed(name) == \E k \in DOMAIN calls : calls[k].call = name /\ ~calls[k].ok

\* no driver candidate has a hardware ID equal to component_id, ignoring case
NoMatchingDriver ==
    \A k \in DOMAIN drivers : ~eq_ignore_ascii_case(drivers[k].HardwareID, component_id)

NoInstallerStep == \A k \in DOMAIN calls : calls[k].call \notin InstallerSteps

\* the calls create_interface makes before it examines the candidates
PreparatoryCalls ==
    {"create_device_info_list", "class_name_from_guid", "create_device_info",
     "set_selected_device", "set_device_registry_property", "build_driver_info_list"}

\* a candidate the loop reaches with no driver chosen whose HardwareID does
\* not decode
DecodeFails ==
    \E k \in DOMAIN drivers :
        /\ drivers[k].enum_ok /\ drivers[k].DriverVersion > 0
        /\ drivers[k].detail_ok /\ ~drivers[k].utf16_ok

CreateFailedAfterRegister ==
    /\ caller = "Device::create"
    /\ pc = "done"
    /\ result # TimedOut("Interface timed out")
    /\ Called("DIF_REGISTERDEVICE")

\* no present device was created by this attempt
NoNodeOfAttempt == \A k \in DOMAIN present : ~present[k].mine

\* C2 as stated: a failure after REGISTER_DEVICE was attempted invokes REMOVE
\* exactly once before the error is returned, and no node of the attempt is
\* present afterwards.
C2_NoNodeRemains ==
    CreateFailedAfterRegister
    => /\ Count(calls, "DIF_REMOVE") = 1
       /\ NoNodeOfAttempt

\* C2 amended: a failure after REGISTER_DEVICE was attempted invokes REMOVE
\* exactly once before the error is returned; no node of the attempt is
\* present afterwards when that REMOVE succeeded (its own failure is
\* discarded and the node stays); REMOVE is not invoked without failure.
C2_RollbackOnce ==
    /\ CreateFailedAfterRegister
       => /\ Count(calls, "DIF_REMOVE") = 1
          /\ IsErr(result)
          /\ Obtained("DIF_REMOVE") = 1 => (NoNodeOfAttempt /\ present = present0)
    /\ caller = "Device::create" => Count(calls, "DIF_REMOVE") =< 1
    /\ (caller = "Device::create" /\ ret = Ok) => Count(calls, "DIF_REMOVE") = 0

\* C2 witness: INSTALL_DEVICE failed, the REMOVE succeeded, the node is gone
C2_Witness ==
    /\ CreateFailedAfterRegister
    /\ result = OsError("DIF_INSTALLDEVICE")
    /\ Obtained("DIF_REGISTERDEVICE") = 1
    /\ Obtained("DIF_REMOVE") = 1
    /\ present = present0

\* the k-th call of the log is a registry-change wait that timed out
WaitTimedOut(k) ==
    /\ calls[k].call = "notify_change_key_value"
    /\ calls[k].arg = "WAIT_TIMEOUT"

RegistryReads == {"get_value *IfType", "get_value NetLuidIndex"}

C4_LoopEnds ==
    /\ [](pc = "done" => (result = TimedOut("Interface timed out")
                           /\ now - start > Deadline))
    /\ [](late =< 1)
    /\ (pc = "dc_start") ~> (pc \in {"done", "live"})

\* C4 witness: every attempt failed, one of them begun after the deadline,
\* and TimedOut was returned
C4_Witness ==
    /\ pc = "done"
    /\ result = TimedOut("Interface timed out")
    /\ handle = "none"
    /\ late = 1
    /\ now - start > Deadline

\* the k-th candidate can become the selected driver
Selectable(k) ==
    /\ drivers[k].enum_ok
    /\ drivers[k].DriverVersion > 0
    /\ drivers[k].detail_ok
    /\ drivers[k].utf16_ok
    /\ eq_ignore_ascii_case(drivers[k].HardwareID, component_id)
    /\ drivers[k].set_ok

\* every candidate is enumerated with a readable hardware ID that matches
AllMatch ==
    \A k \in DOMAIN drivers :
        /\ drivers[k].enum_ok /\ drivers[k].detail_ok /\ drivers[k].utf16_ok
        /\ eq_ignore_ascii_case(drivers[k].HardwareID, component_id)

\* C5 as stated: when all candidates match, the driver selected when
\* REGISTER_DEVICE is invoked has the highest version of the list.
C5_HighestOfAll ==
    (pc = "ci_register_device" /\ AllMatch)
    => /\ selected \in DOMAIN drivers
       /\ \A k \in DOMAIN drivers :
            drivers[k].DriverVersion =< drivers[selected].DriverVersion

\* C5 amended: the driver selected when REGISTER_DEVICE is invoked has the
\* highest version among the candidates that match and that the OS accepted
\* as the selected driver, and is the first of that version in enumeration
\* order: a later candidate replaces the choice only with a strictly higher
\* version.
C5_HighestAccepted ==
    pc = "ci_register_device"
    => /\ selected \in DOMAIN drivers
       /\ Selectable(selected)
       /\ driver_version = drivers[selected].DriverVersion
       /\ \A k \in DOMAIN drivers :
            Selectable(k)
            => \/ drivers[k].DriverVersion < drivers[selected].DriverVersion
               \/ /\ drivers[k].DriverVersion = drivers[selected].DriverVersion
                  /\ k >= selected

\* C5 witness: versions [3, 7, 5], all matching and accepted, 7 selected
C5_Witness ==
    /\ pc = "ci_register_device"
    /\ Len(drivers) = 3
    /\ AllMatch
    /\ \A k \in DOMAIN drivers : drivers[k].set_ok
    /\ drivers[1].DriverVersion = 3
    /\ drivers[2].DriverVersion = 7
    /\ drivers[3].DriverVersion = 5
    /\ selected = 2

\* Device::open has translated the name into the identifier luid
Resolved == caller = "Device::open" /\ Obtained("alias_to_luid") = 1

\* the k-th present device has a hardware ID equal to component_id, ignoring
\* case, and the identifier luid
DeviceOf(k) ==
    /\ eq_ignore_ascii_case(present[k].hw, component_id)
    /\ present[k].IfType # NoValue
    /\ present[k].NetLuidIndex # NoValue
    /\ BuildLuid(present[k].IfType, present[k].NetLuidIndex) = luid

NoDeviceOf == \A k \in DOMAIN present : ~DeviceOf(k)

\* C6 as stated: Device::open returns NotFound and opens no handle when the
\* resolved identifier belongs to no present device of component_id.
C6_NotFoundAlways ==
    (Resolved /\ NoDeviceOf /\ pc = "done")
    => /\ result.kind = "NotFound"
       /\ handle = "none"

\* C6 amended: when the resolved identifier belongs to no present device of
\* component_id, Device::open never attempts to open the handle and returns
\* an error: the OS error of get_class_devs when that call failed, else
\* NotFound "Device not found".
C6_OpenAbsent ==
    (Resolved /\ NoDeviceOf)
    => /\ handle = "none"
       /\ dev = "none"
       /\ pc \notin {"do_open_interface", "live"}
       /\ ~Called("open_interface")
       /\ pc = "done"
          => result = IF Failed("get_class_devs")
                      THEN OsError("get_class_devs")
                      ELSE NotFound("Device not found")

\* C6 witness: the name resolved to the identifier of a present adapter of
\* another vendor, and NotFound was returned
C6_Witness ==
    /\ Resolved
    /\ NoDeviceOf
    /\ pc = "done"
    /\ result = NotFound("Device not found")
    /\ handle = "none"
    /\ \E k \in DOMAIN present :
         /\ present[k].hw = OTHER_VENDOR_ID
         /\ BuildLuid(present[k].IfType, present[k].NetLuidIndex) = luid

\* check_interface, called directly, has returned
CheckReturned == caller = "check_interface" /\ pc = "iface_idle"

C8_RoundTrip ==
    (ret = Ok /\ if_type < 65536 /\ luid_index < 16777216)
    => /\ IfType(luid) = if_type
       /\ NetLuidIndex(luid) = luid_index

\* C8 witness: the largest pair of the range was packed and returned
C8_Witness ==
    /\ pc = "done"
    /\ result = Ok
    /\ if_type = 65535
    /\ luid_index = 16777215
    /\ luid = <<0, 0, 0, 255, 255, 255, 255, 255>>

\* C9: the device handle is closed exactly once when the Device ends, by
\* drop or by delete whatever delete returned, never while the Device is
\* live, and no handle is closed when create or open obtained none.
C9_ClosedOnce ==
    /\ closes =< 1
    /\ handle = "none" => (closes = 0 /\ dev = "none")
    /\ dev = "live" => (closes = 0 /\ handle = "open")
    /\ (pc = "done" /\ handle # "none")
       => (closes = 1 /\ handle = "closed" /\ dev = "dropped")

\* C9 witness: delete returned an error and the handle was closed once
C9_Witness ==
    /\ caller = "Device::delete"
    /\ pc = "done"
    /\ IsErr(result)
    /\ closes = 1
    /\ handle = "closed"

\* the program is in none of create_interface, check_interface and
\* delete_interface
OutsideIface ==
    pc \in {"idle", "iface_idle", "done", "dc_start", "dc_check_deadline",
            "dc_open_interface", "do_alias_to_luid", "do_open_interface", "live",
            "dd_drop"}

BestEffortSteps == {"DIF_REGISTER_COINSTALLERS", "DIF_INSTALLINTERFACES"}

\* C11: whether REGISTER_COINSTALLERS and INSTALL_INTERFACES succeed or
\* fail, the next call is the next step (INSTALL_INTERFACES, then
\* INSTALL_DEVICE), the rollback guard stays armed and untriggered, no error
\* is being returned when INSTALL_DEVICE is reached, and no result of
\* create_interface ever carries the error of one of the two steps.
C11_BestEffort ==
    caller = "Device::create"
    => /\ \A k \in DOMAIN calls :
            /\ (calls[k].call = "DIF_REGISTER_COINSTALLERS" /\ k < Len(calls))
               => calls[k + 1].call = "DIF_INSTALLINTERFACES"
            /\ (calls[k].call = "DIF_INSTALLINTERFACES" /\ k < Len(calls))
               => calls[k + 1].call = "DIF_INSTALLDEVICE"
       /\ ret.at \notin BestEffortSteps
       /\ result.at \notin BestEffortSteps
       /\ pc \in {"ci_install_interfaces", "ci_install_device"}
          => /\ ret = NoResult
             /\ uninstaller
             /\ node = "registered"
             /\ Count(calls, "DIF_REMOVE") = 0

\* C11 witness: both best-effort steps failed and create_interface returned
\* its identifier without rollback
C11_Witness ==
    /\ caller = "Device::create"
    /\ pc = "dc_start"
    /\ ret = Ok
    /\ Failed("DIF_REGISTER_COINSTALLERS")
    /\ Failed("DIF_INSTALLINTERFACES")
    /\ Obtained("DIF_INSTALLDEVICE") = 1
    /\ Count(calls, "DIF_REMOVE") = 0

\* the device d has a hardware ID equal to component_id, ignoring case, and
\* registry values that build the identifier luid
Matches(d) ==
    /\ eq_ignore_ascii_case(d.hw, component_id)
    /\ d.IfType # NoValue
    /\ d.NetLuidIndex # NoValue
    /\ BuildLuid(d.IfType, d.NetLuidIndex) = luid

\* delete_interface, called directly, has returned
DeleteReturned == caller = "delete_interface" /\ pc = "iface_idle"

\* every REMOVE of the log was applied to a device that was present when
\* delete_interface was called and that matches
RemovesOnlyMatching ==
    \A k \in DOMAIN calls :
        calls[k].call = "DIF_REMOVE"
        => /\ calls[k].arg \in DOMAIN present0
           /\ Matches(present0[calls[k].arg])

\* C12 as stated: delete_interface invokes REMOVE at most once and only on
\* a matching present node, and with no matching present device it returns
\* NotFound and invokes no REMOVE.
C12_NotFoundAlways ==
    caller = "delete_interface"
    => /\ Count(calls, "DIF_REMOVE") =< 1
       /\ RemovesOnlyMatching
       /\ (DeleteReturned /\ \A j \in DOMAIN present0 : ~Matches(present0[j]))
          => (result.kind = "NotFound" /\ Count(calls, "DIF_REMOVE") = 0)

\* C12 amended: delete_interface invokes REMOVE at most once and only on a
\* matching present node; with no matching present device it invokes no
\* REMOVE and returns an error: the OS error of get_class_devs when that
\* call failed, else NotFound "Device not found".
C12_RemoveMatching ==
    caller = "delete_interface"
    => /\ Count(calls, "DIF_REMOVE") =< 1
       /\ RemovesOnlyMatching
       /\ (\A j \in DOMAIN present0 : ~Matches(present0[j]))
          => /\ Count(calls, "DIF_REMOVE") = 0
             /\ present = present0
             /\ DeleteReturned
                => result = IF Failed("get_class_devs")
                            THEN OsError("get_class_devs")
                            ELSE NotFound("Device not found")

\* C12 witness: two devices of the family present, the second one matching:
\* the REMOVE was applied to it alone, and it is gone
C12_Witness ==
    /\ DeleteReturned
    /\ result = Ok
    /\ Len(present0) = 2
    /\ eq_ignore_ascii_case(present0[1].hw, component_id)
    /\ ~Matches(present0[1])
    /\ Matches(present0[2])
    /\ Count(calls, "DIF_REMOVE") = 1
    /\ present = <<present0[1]>>

\* the positions of delete_interface
DeletePcs ==
    {"del_get_class_devs", "del_enum_device_info", "del_remove", "del_drop_guard"}

\* C13: during Device::delete the handle stays open while delete_interface
\* runs, its REMOVE included, and until delete_interface has returned; the
\* close is the last call of the operation, after every call of the
\* deletion attempt.
C13_DeleteBeforeClose ==
    caller = "Device::delete"
    => /\ pc \in DeletePcs \cup {"dd_drop"} => (handle = "open" /\ closes = 0)
       /\ \A k \in DOMAIN calls :
            calls[k].call = "close_handle"
            => /\ k = Len(calls)
               /\ k > 1
               /\ pc = "done"
               /\ result # NoResult
               /\ \/ calls[k - 1].call = "destroy_device_info_list"
                  \/ (calls[k - 1].call = "get_class_devs" /\ ~calls[k - 1].ok)
       /\ pc = "done" => (handle = "closed" /\ calls[Len(calls)].call = "close_handle")

\* C13 witness: the adapter was removed, then the handle closed
C13_Witness ==
    /\ caller = "Device::delete"
    /\ pc = "done"
    /\ result = Ok
    /\ Obtained("DIF_REMOVE") = 1
    /\ calls[Len(calls)].call = "close_handle"
    /\ handle = "closed"

\* C14: when a Device is dropped without delete, its handle is closed, no
\* REMOVE step has been invoked since the Device was created or opened, the
\* devices that were present then are still present, and so is the adapter
\* of the Device.
C14_DropKeepsAdapter ==
    caller = "drop"
    => /\ handle = "closed"
       /\ closes = 1
       /\ Count(calls, "close_handle") = 1
       /\ Count(calls, "DIF_REMOVE") = 0
       /\ Len(present) >= Len(present0)
       /\ \A j \in DOMAIN present0 : present[j] = present0[j]
       /\ \E k \in DOMAIN present : Matches(present[k])

\* C14 witness: a Device made by create was dropped and the adapter it
\* installed is still present
C14_Witness ==
    /\ caller = "drop"
    /\ pc = "done"
    /\ handle = "closed"
    /\ Obtained("DIF_INSTALLDEVICE") = 1
    /\ \E k \in DOMAIN present : present[k].mine /\ Matches(present[k])

CreateSteps ==
    <<"create_device_info_list", "create_device_info", "set_selected_device",
      "set_device_registry_property", "build_driver_info_list",
      "DIF_REGISTERDEVICE", "DIF_REGISTER_COINSTALLERS", "DIF_INSTALLINTERFACES",
      "DIF_INSTALLDEVICE", "open_dev_reg_key">>

\* the calls of the driver selection
SelectionCalls == {"enum_driver_info", "get_driver_info_detail", "set_selected_driver"}

\* position in the log of the only call of `name`
Pos(name) == CHOOSE k \in DOMAIN calls : calls[k].call = name

\* C16: in every creation attempt each step is executed at most once; a step
\* is executed only after the step before it, and only if that one
\* succeeded or is one of the two best-effort steps; the calls of the driver
\* selection lie between the building of the driver list and
\* REGISTER_DEVICE, which is invoked only after a driver was selected.
C16_StepOrder ==
    caller = "Device::create"
    => /\ \A i \in DOMAIN CreateSteps : Count(calls, CreateSteps[i]) =< 1
       /\ \A i \in 2..Len(CreateSteps) :
            Called(CreateSteps[i])
            => /\ Called(CreateSteps[i - 1])
               /\ Pos(CreateSteps[i - 1]) < Pos(CreateSteps[i])
               /\ \/ CreateSteps[i - 1] \in BestEffortSteps
                  \/ calls[Pos(CreateSteps[i - 1])].ok
       /\ \A k \in DOMAIN calls :
            calls[k].call \in SelectionCalls
            => /\ Obtained("build_driver_info_list") = 1
               /\ Pos("build_driver_info_list") < k
               /\ Called("DIF_REGISTERDEVICE") => k < Pos("DIF_REGISTERDEVICE")
       /\ Called("DIF_REGISTERDEVICE") => Obtained("set_selected_driver") >= 1

\* C16 witness: all steps were executed, the first best-effort step having
\* failed
C16_Witness ==
    /\ caller = "Device::create"
    /\ \A i \in DOMAIN CreateSteps : Called(CreateSteps[i])
    /\ Failed("DIF_REGISTER_COINSTALLERS")
    /\ Obtained("open_dev_reg_key") = 1
    /\ Obtained("set_selected_driver") = 2

\* the errors of an open attempt
OpenErrors == OpenInterfaceResults \ {Ok}

\* the positions of the handle-acquisition loop and after it
LoopPcs == {"dc_check_deadline", "dc_open_interface", "live", "done"}

\* create_interface has returned the identifier to Device::create: it went
\* past REGISTER_DEVICE, ran no rollback and has destroyed its set
CreateInterfaceSucceeded ==
    /\ caller = "Device::create"
    /\ Called("DIF_REGISTERDEVICE")
    /\ Count(calls, "DIF_REMOVE") = 0
    /\ Count(calls, "destroy_device_info_list") = 1

\* C17: in the handle-acquisition loop the error of a failed open attempt,
\* whichever it is, is never the result of create; after a failure the loop
\* is at its deadline check with no handle and nothing returned, and from
\* there it makes another attempt unless the deadline has been exceeded; the
\* loop ends with the handle of the attempt that succeeded or with TimedOut.
C17_OpenFailureRetried ==
    /\ []((CreateInterfaceSucceeded /\ pc \in LoopPcs)
          => /\ result \notin OpenErrors
             /\ (pc = "dc_check_deadline" /\ ret \in OpenErrors)
                => (handle = "none" /\ dev = "none" /\ result = NoResult)
             /\ pc = "live" => (ret = Ok /\ dev = "live" /\ handle = "open")
             /\ pc = "done" /\ handle = "none"
                => result = TimedOut("Interface timed out"))
    /\ [][(pc = "dc_check_deadline" /\ ret \in OpenErrors /\ pc' # pc)
          => IF now - start > Deadline
             THEN pc' = "done" /\ result' = TimedOut("Interface timed out")
             ELSE pc' = "dc_open_interface" /\ result' = result]_vars

\* C17 witness: an attempt failed in create_file before the deadline and
\* the loop is about to make another attempt
C17_Witness ==
    /\ CreateInterfaceSucceeded
    /\ pc = "dc_open_interface"
    /\ ret = OsError("create_file")
    /\ now - start =< Deadline
    /\ handle = "none"
    /\ result = NoResult

\* the devices, present when the operation was called, that check_interface
\* accepts
Accepted ==
    {k \in DOMAIN present0 : CheckExamine(present0[k], component_id, luid) = "found"}

\* the first of them in enumeration order, 0 when there is none
FirstAccepted ==
    IF Accepted = {} THEN 0
    ELSE CHOOSE k \in Accepted : \A j \in Accepted : k =< j

RollbackCalls == {"DIF_REMOVE", "destroy_driver_info_list", "destroy_device_info_list"}

GuardPcs == {"ci_drop_uninstaller", "ci_drop_drvlist_guard", "ci_drop_devinfo_guard"}

\* the error a failed call of the log returns
ErrorOf(e) ==
    IF e.call = "notify_change_key_value" THEN notify_change_key_value(e.arg)
    ELSE OsError(e.call)

\* C19: when create_interface fails after REGISTER_DEVICE was attempted, the
\* error returned is the error of the step that failed, i.e. of the failed
\* call made just before the REMOVE, whether the REMOVE and the destructions
\* of the driver-info list and of the DeviceInfoSet succeed or fail; the
\* guards never change the value about to be returned.
C19_OriginalError ==
    /\ [](CreateFailedAfterRegister
          => /\ IsErr(result)
             /\ result.at \notin RollbackCalls
             /\ \E k \in DOMAIN calls :
                  /\ calls[k].call = "DIF_REMOVE"
                  /\ k > 1
                  /\ ~calls[k - 1].ok
                  /\ calls[k - 1].call \notin RollbackCalls
                  /\ result = ErrorOf(calls[k - 1]))
    /\ [][(pc \in GuardPcs) => (ret' = ret)]_vars

\* C19 witness: INSTALL_DEVICE failed, then the REMOVE and both destructions
\* failed, and the error of INSTALL_DEVICE was returned
C19_Witness ==
    /\ CreateFailedAfterRegister
    /\ Failed("DIF_INSTALLDEVICE")
    /\ Failed("DIF_REMOVE")
    /\ Failed("destroy_driver_info_list")
    /\ Failed("destroy_device_info_list")
    /\ result = OsError("DIF_INSTALLDEVICE")

\* the steps of the registry-polling loops of iface.rs:118-124
ResolverPcs == {"ci_wait_iftype", "ci_notify_iftype",
                "ci_wait_luidindex", "ci_notify_luidindex"}

\* the k-th call of the log is a registry-change wait
IsWait(k) == calls[k].call = "notify_change_key_value"

\* the program waited for *IfType and never read a value of it
IfTypeNeverWritten ==
    /\ caller = "Device::create"
    /\ Called("notify_change_key_value")
    /\ Obtained("get_value *IfType") = 0

CheckCalls == {"get_class_devs", "enum_device_info", "destroy_device_info_list"}

\* Device::open has returned
OpenReturned == caller = "Device::open" /\ pc \in {"done", "live"}

\* C21: Device::open makes one name-to-identifier translation, then the
\* verification of check_interface, then at most one attempt to open the
\* handle, in that order; a failed translation is returned with no device
\* scanned, a failed verification with no attempt to open the handle, a
\* failed attempt with no second one; and no class-installer step is
\* invoked.
C21_OpenOnce ==
    caller = "Device::open"
    => /\ Count(calls, "alias_to_luid") =< 1
       /\ Count(calls, "get_class_devs") =< 1
       /\ Count(calls, "open_interface") =< 1
       /\ \A k \in DOMAIN calls :
            /\ calls[k].call \notin InstallerSteps
            /\ (calls[k].call = "alias_to_luid") <=> (k = 1)
            /\ calls[k].call = "get_class_devs" => k = 2
            /\ calls[k].call = "open_interface"
               => /\ k = Len(calls)
                  /\ calls[k - 1].call = "destroy_device_info_list"
                  /\ ret = Ok
            /\ (k > 1 /\ k < Len(calls)) => calls[k].call \in CheckCalls
       /\ Failed("alias_to_luid")
          => (Len(calls) = 1 /\ pc = "done" /\ result = OsError("alias_to_luid"))
       /\ (OpenReturned /\ Called("get_class_devs") /\ IsErr(ret))
          => (result = ret /\ ~Called("open_interface") /\ handle = "none")
       /\ Failed("open_interface")
          => (pc = "done" /\ result = OsError("open_interface") /\ handle = "none")
       /\ (OpenReturned /\ result = Ok) => Obtained("open_interface") = 1

\* C21 witness: the translation and the verification succeeded, the one
\* attempt to open the handle failed and open returned its error
C21_Witness ==
    /\ OpenReturned
    /\ Obtained("alias_to_luid") = 1
    /\ ret = Ok
    /\ Failed("open_interface")
    /\ Count(calls, "open_interface") = 1
    /\ result = OsError("open_interface")

\* the waits of the log whose event object was created (ffi.rs:394)
EventsCreated ==
    Cardinality({k \in DOMAIN calls : IsWait(k) /\ calls[k].arg # "CreateEventW failed"})

\* C22 as stated: every event object created for a registry-change wait is
\* released when that wait returns, signalled, timed out or failed, so no
\* event object is open after any number of waits of create_interface.
C22_EventsReleased ==
    caller = "Device::create" => events = 0

\* C22, what the program does: no exit path of a wait closes its event
\* object; the event objects open are all those the waits created, and
\* their number never decreases.
C22_EventsLeak ==
    /\ [](caller = "Device::create" => events = EventsCreated)
    /\ [][events' >= events]_vars

\* C22 witness: create_interface has returned after a signalled wait and a
\* timed-out one, and the event objects of both are still open
C22_Witness ==
    /\ caller = "Device::create"
    /\ pc = "done"
    /\ \E j, k \in DOMAIN calls :
         /\ IsWait(j) /\ calls[j].arg = "WAIT_OBJECT_0"
         /\ WaitTimedOut(k)
    /\ events = 2

\* C23: the identifier and the component_id of a Device do not change once
\* the Device exists, whatever operations are called on it, a rename
\* included; Device::delete invokes REMOVE only on a node that carries that
\* stored pair, the first one the scan meets, whether or not the interface
\* was renamed.
C23_StoredPairFixed ==
    /\ [][dev # "none" => (luid' = luid /\ component_id' = component_id)]_vars
    /\ [](caller = "Device::delete"
          => \A k \in DOMAIN calls :
               calls[k].call = "DIF_REMOVE"
               => /\ calls[k].arg \in DOMAIN present0
                  /\ Matches(present0[calls[k].arg])
                  /\ \A j \in 1..(calls[k].arg - 1) : ~Matches(present0[j]))

\* C23 witness: the interface was renamed, then Device::delete removed the
\* adapter that carries the stored pair
C23_Witness ==
    /\ caller = "Device::delete"
    /\ alias \in NewNames
    /\ Obtained("DIF_REMOVE") = 1
    /\ \E k \in DOMAIN present0 : Matches(present0[k])
    /\ Len(present) = Len(present0) - 1

\* Device::create has returned TimedOut from its handle-acquisition loop
CreateTimedOut ==
    /\ caller = "Device::create"
    /\ pc = "done"
    /\ result = TimedOut("Interface timed out")

\* C24: the rollback guard is armed from REGISTER_DEVICE until both registry
\* values have been read and is defused right after; when Device::create
\* then returns TimedOut from the handle-acquisition loop no REMOVE step has
\* been invoked and the adapter this attempt installed is still present,
\* with no handle open.
C24_AdapterLeftBehind ==
    /\ pc = "ci_defuse"
       => /\ uninstaller
          /\ Len(calls) >= 2
          /\ calls[Len(calls) - 1] = Entry("get_value *IfType", 0, TRUE)
          /\ calls[Len(calls)] = Entry("get_value NetLuidIndex", 0, TRUE)
    /\ pc \in LoopPcs \ {"done", "live"} => ~uninstaller
    /\ CreateTimedOut
       => /\ ~uninstaller
          /\ Count(calls, "DIF_REMOVE") = 0
          /\ Len(present) = Len(present0) + 1
          /\ \E k \in DOMAIN present :
               /\ present[k].mine
               /\ BuildLuid(present[k].IfType, present[k].NetLuidIndex) = luid
          /\ handle = "none"
          /\ dev = "none"

\* C24 witness: create returned TimedOut and the adapter it installed is the
\* last present device of the class
C24_Witness ==
    /\ CreateTimedOut
    /\ Obtained("DIF_INSTALLDEVICE") = 1
    /\ Len(present) > 0
    /\ present[Len(present)].mine
    /\ Count(calls, "DIF_REMOVE") = 0

\* the highest version of the candidates before the k-th that satisfy all
\* the conditions, 0 when there is none
BestBefore(k) ==
    LET vs == {0} \cup {drivers[j].DriverVersion : j \in {i \in 1..(k - 1) : Selectable(i)}}
    IN CHOOSE v \in vs : \A w \in vs : w =< v

\* the k-th candidate is reached with a version above the threshold and its
\* hardware ID does not decode
DecodeStops(k) ==
    /\ drivers[k].enum_ok
    /\ drivers[k].DriverVersion > BestBefore(k)
    /\ drivers[k].detail_ok
    /\ ~drivers[k].utf16_ok

\* the driver-info list was built and the selection is over: create_interface
\* has returned or goes on to REGISTER_DEVICE
SelectionOver ==
    /\ caller = "create_interface"
    /\ Obtained("build_driver_info_list") = 1
    /\ pc \in {"done", "ci_register_device"}

\* C25 as stated: once the candidates are enumerated, create_interface
\* returns NotFound exactly when no candidate satisfies all the conditions.
C25_NotFoundExactly ==
    SelectionOver
    => ((pc = "done" /\ result = NotFound("No driver found"))
        <=> (\A k \in DOMAIN drivers : ~Selectable(k)))

\* C25 amended: once the candidates are enumerated, create_interface returns
\* the decoding error of the first candidate reached above the threshold
\* whose hardware ID does not decode; otherwise it returns NotFound exactly
\* when no candidate satisfies all the conditions.  The selected driver
\* always satisfies them all, so its version is above 0, and driver_version
\* is the version of the selected driver: a candidate refused by
\* set_selected_driver never raises it.
C25_NotFoundUnlessDecodeError ==
    /\ SelectionOver
       => /\ (pc = "done" /\ result = Other("HardwareID"))
             <=> (\E k \in DOMAIN drivers : DecodeStops(k))
          /\ (pc = "done" /\ result = NotFound("No driver found"))
             <=> /\ \A k \in DOMAIN drivers : ~Selectable(k)
                 /\ \A k \in DOMAIN drivers : ~DecodeStops(k)
          /\ pc = "done" => result.kind \in {"Other", "NotFound"}
    /\ caller = "create_interface"
       => IF selected = 0 THEN driver_version = 0
          ELSE /\ selected \in DOMAIN drivers
               /\ Selectable(selected)
               /\ driver_version = drivers[selected].DriverVersion
               /\ driver_version > 0

\* C25 witness: a matching candidate of version 0 and a matching one that
\* set_selected_driver refuses, and create_interface returned NotFound
C25_Witness ==
    /\ SelectionOver
    /\ pc = "done"
    /\ result = NotFound("No driver found")
    /\ \E j, k \in DOMAIN drivers :
         /\ drivers[j].DriverVersion = 0
         /\ eq_ignore_ascii_case(drivers[j].HardwareID, component_id)
         /\ drivers[j].enum_ok /\ drivers[j].detail_ok /\ drivers[j].set_ok
         /\ drivers[k].DriverVersion > 0
         /\ eq_ignore_ascii_case(drivers[k].HardwareID, component_id)
         /\ drivers[k].enum_ok /\ drivers[k].detail_ok /\ ~drivers[k].set_ok

EnumPcs == {"ci_enum_driver_info", "chk_enum_device_info", "del_enum_device_info"}

IsEnumCall(e) == e.call \in {"enum_driver_info", "enum_device_info"}

\* the enumeration calls of the operation in progress, in order
EnumLog == SelectSeq(calls, IsEnumCall)

\* the length of the list the operation in progress enumerates
EnumLen == IF caller = "create_interface" THEN Len(drivers) ELSE Len(present0)

\* the loop of the operation in progress was entered and has been left
EnumStopped == Len(EnumLog) > 0 /\ pc \notin EnumPcs

\* the loop stopped at the no-more-items report
StoppedAtEnd == EnumLog[Len(EnumLog)].arg = EnumLen

\* a scan stopped at the device it accepts
StoppedAtMatch ==
    /\ caller \in {"check_interface", "delete_interface"}
    /\ EnumLog[Len(EnumLog)].arg < EnumLen
    /\ EnumLog[Len(EnumLog)].ok
    /\ CheckExamine(present0[EnumLog[Len(EnumLog)].arg + 1], component_id, luid) = "found"

\* the selection loop was left by the `?` of the HardwareID decoding
StoppedAtDecodeError ==
    /\ caller = "create_interface"
    /\ EnumLog[Len(EnumLog)].arg < EnumLen
    /\ EnumLog[Len(EnumLog)].ok
    /\ ~drivers[EnumLog[Len(EnumLog)].arg + 1].utf16_ok
    /\ ret = Other("HardwareID")

\* the member indices are visited in the order 0, 1, 2, ..., each once, up to
\* the no-more-items report at the length of the list
VisitedInOrder ==
    /\ \A j \in DOMAIN EnumLog : EnumLog[j].arg = j - 1
    /\ Len(EnumLog) =< EnumLen + 1
    /\ pc \in EnumPcs => member_index = Len(EnumLog)

\* C26 as stated: the loops visit the member indices in increasing order,
\* each at most once, and stop only at the no-more-items report or at a
\* match.
C26_StopAtEndOrMatch ==
    /\ VisitedInOrder
    /\ EnumStopped => (StoppedAtEnd \/ StoppedAtMatch)

\* C26 amended: the loops visit the member indices 0, 1, 2, ... in
\* increasing order, each at most once; they stop only at the no-more-items
\* report, at a match (the two scans), or, in create_interface, at a
\* candidate whose HardwareID does not decode, whose error is returned; an
\* enumeration error at an index is skipped, never returned; and every loop
\* that is entered is left.
C26_StopAtEndMatchOrDecodeError ==
    /\ [](VisitedInOrder)
    /\ [](EnumStopped => (StoppedAtEnd \/ StoppedAtMatch \/ StoppedAtDecodeError))
    /\ [](\A j \in DOMAIN EnumLog :
            (EnumLog[j].arg < EnumLen /\ ~EnumLog[j].ok)
            => (j < Len(EnumLog) \/ pc \in EnumPcs))
    /\ (pc \in EnumPcs) ~> (pc \notin EnumPcs)

\* C26 witness: the enumeration failed at index 0 of a list of two devices
\* and the scan of check_interface went on to the no-more-items report
C26_Witness ==
    /\ caller = "check_interface"
    /\ EnumStopped
    /\ Len(present0) = 2
    /\ ~present0[1].enum_ok
    /\ Len(EnumLog) = 3
    /\ StoppedAtEnd

\* the positions of the log that hold the call `name`
At(name) == {k \in DOMAIN calls : calls[k].call = name}

\* create_interface, called by Device::create, has returned
CreateInterfaceReturned ==
    /\ caller = "Device::create"
    /\ pc \in LoopPcs \cup {"dc_start"}

\* C27: in create_interface the rollback REMOVE, when it runs, is followed
\* at once by the destruction of the driver-info list, and that one by the
\* destruction of the DeviceInfoSet, which is the last call of the function
\* on every exit path; each of the three is made at most once, and the two
\* destructions exactly once for a list that was built and a set that was
\* created.
C27_CleanupOrder ==
    caller = "Device::create"
    => /\ \A k \in At("DIF_REMOVE") :
            k < Len(calls) => calls[k + 1].call = "destroy_driver_info_list"
       /\ \A k \in At("destroy_driver_info_list") :
            k < Len(calls) => calls[k + 1].call = "destroy_device_info_list"
       /\ \A k \in At("destroy_device_info_list") : k = Len(calls)
       /\ Cardinality(At("DIF_REMOVE")) =< 1
       /\ Cardinality(At("destroy_driver_info_list")) =< 1
       /\ Cardinality(At("destroy_device_info_list")) =< 1
       /\ devinfo \in {"destroyed", "destroy failed"} => CreateInterfaceReturned
       /\ CreateInterfaceReturned
          => /\ Cardinality(At("destroy_device_info_list"))
                  = Obtained("create_device_info_list")
             /\ Cardinality(At("destroy_driver_info_list"))
                  = Obtained("build_driver_info_list")
             /\ uninstaller = FALSE

\* C27 witness: a registry wait failed, and the function ended with REMOVE,
\* the destruction of the driver-info list and that of the DeviceInfoSet
C27_Witness ==
    /\ CreateInterfaceReturned
    /\ Failed("notify_change_key_value")
    /\ Len(calls) >= 3
    /\ calls[Len(calls) - 2].call = "DIF_REMOVE"
    /\ calls[Len(calls) - 1].call = "destroy_driver_info_list"
    /\ calls[Len(calls)].call = "destroy_device_info_list"

\* the identifier l has the low 24 bits of index in bits 24-47, the low 16
\* bits of type in bits 48-63 and zero in bits 0-23: its 64-bit value is
\* ((index mod 2^24) * 2^24) + ((type mod 2^16) * 2^48)
PackedFrom(l, type, index) ==
    /\ Reserved(l) = 0
    /\ NetLuidIndex(l) = index % 16777216
    /\ IfType(l) = type % 65536

\* a scan accepted a device: check_interface found it or delete_interface
\* invoked REMOVE on it
ScanAccepted ==
    \/ caller = "check_interface" /\ pc \in {"chk_drop_guard", "iface_idle"} /\ ret = Ok
    \/ caller = "delete_interface" /\ Called("DIF_REMOVE")

\* C28: the identifier create_interface builds from the two registry values
\* has zero reserved bits, the index taken mod 2^24 in bits 24-47 and the
\* type taken mod 2^16 in bits 48-63, so no bit of an oversized value
\* reaches another field; the scans build the identifier of a device the
\* same way, so they accept only a requested identifier with zero reserved
\* bits, equal to the one packed from the values of the device.
C28_NoSpill ==
    /\ (caller = "create_interface" /\ ret = Ok)
       => /\ if_type = present[1].IfType
          /\ luid_index = present[1].NetLuidIndex
          /\ PackedFrom(luid, if_type, luid_index)
    /\ ScanAccepted
       => /\ Reserved(luid) = 0
          /\ PackedFrom(luid, present0[1].IfType, present0[1].NetLuidIndex)
    /\ (caller \in {"check_interface", "delete_interface"} /\ pc = "iface_idle"
        /\ Reserved(luid) # 0)
       => /\ IsErr(result)
          /\ ~Called("DIF_REMOVE")
          /\ present = present0

\* C28 witness: both registry values are oversized, 65536 + 6 and
\* 16777216 + 42, and create_interface returned the identifier of type 6
\* and index 42
C28_Witness ==
    /\ caller = "create_interface"
    /\ pc = "done"
    /\ result = Ok
    /\ if_type = 65542
    /\ luid_index = 16777258
    /\ luid = <<0, 0, 0, 42, 0, 0, 6, 0>>

====
